---- MODULE Spec2Model ----
(***************************************************************************)
(* Model of the HARP2 visualisation notebook                               *)
(* (src/harp2/harp2_basic_visualizations.ipynb): the nadir index cell, the *)
(* radiance-to-reflectance conversion, the normalisation / smoothing /     *)
(* quantisation cells of the animation, the bounce concatenation and the   *)
(* staging of frames in a temporary directory.                             *)
(*                                                                         *)
(* Arrays are indexed [pixel][view]: a pixel is one (row, col) position,   *)
(* the view axis is a sequence whose element k+1 is Python index k.        *)
(* Floating-point values are fixed-point integers in units of 1/Q, with    *)
(* NaN a value of its own.                                                 *)
(***************************************************************************)
EXTENDS Integers, Sequences, FiniteSets, TLC

VARIABLES
    angles,           \* view["sensor_view_angle"]: one angle per view
    green_nadir_idx,  \* the three names the nadir cell binds
    red_nadir_idx,
    blue_nadir_idx,
    rad,              \* obs["i"], [pixel][view]
    f0,               \* view["intensity_f0"], per view
    sza,              \* geo["solar_zenith_angle"], per pixel
    r,                \* float(prod.attrs["sun_earth_distance"])
    refl,             \* the reflectance array
    refl_pretty,      \* the array the animation cells rebind
    frames,           \* the bounce sequence
    frame_src,        \* for each frame position, the Python view index it shows
    i,                \* the name i, which three loops of the notebook bind
    range_it,         \* values the staging loop's iterator has yielded
    tmp_exists,       \* the TemporaryDirectory exists on disk
    tmp_files,        \* the files in it: file name |-> image written
    anim,             \* the APNG object: its frames, [pos, delay, image] each
    out_file,         \* the animation file: "absent", "partial" or "complete"
    saved,            \* the frames written to the animation file
    pc,               \* the statement about to run
    err,              \* the exception that ended the run, NoError when none
    ids,              \* id() of the arrays: which objects and buffers exist
    paths,            \* earthaccess.open(results): the kind of each file
    stokes,           \* obs[["i", "q", "u"]], [variable][row][column][view]
    dolp,             \* obs["dolp"], [row][column][view]
    rgb_stokes,       \* the three nadir views of stokes, then normalized
    window,           \* pixels that are not null in all three nadir views
    crop_rgb_stokes,  \* rgb_stokes without the empty rows and columns
    rgb_dolp,         \* the three nadir views of dolp
    crop_rgb_dolp,    \* rgb_dolp without the empty rows and columns
    crop_rgb          \* the merge of the two cropped datasets

vars == <<angles, green_nadir_idx, red_nadir_idx, blue_nadir_idx, rad, f0, sza,
          r, refl, refl_pretty, frames, frame_src, i, range_it, tmp_exists,
          tmp_files, anim, out_file, saved, pc, err, ids, paths, stokes, dolp,
          rgb_stokes, window, crop_rgb_stokes, rgb_dolp, crop_rgb_dolp,
          crop_rgb>>

\* The variables of the polarization plots, which the animation leaves alone.
plotVars == <<stokes, dolp, rgb_stokes, window, crop_rgb_stokes, rgb_dolp,
              crop_rgb_dolp, crop_rgb>>

----------------------------------------------------------------------------
(* Program constants: the hard-coded band boundaries.                      *)

GreenEnd == 10
RedStart == 10
RedEnd == 70
BlueStart == 80

(* Bounds of the model.                                                    *)

MaxViews == 90        \* views of a full HARP2 granule (the largest vector)
MaxFrames == 4        \* frame counts 0..MaxFrames are enumerated exhaustively
NumPixels == 2        \* (row, col) positions of the image
MaxGap == 12          \* largest distance between two overwritten angles

Pixels == 1..NumPixels

(* Values that are not numbers.                                            *)

NaN == -1000000       \* IEEE not-a-number
Unbound == -1         \* a name no statement has assigned yet

NoError == "none"

(* The identity of the arrays, as id() tells it. `refl` is the buffer of   *)
(* refl (refl_red = refl[..., 10:70] is a view on it), `obj` the DataArray  *)
(* object bound to refl_pretty and `buf` the buffer behind its .data,       *)
(* `frames` the buffer of frames; 0 stands for an array not made yet and    *)
(* `next` is the first id not handed out.                                   *)
NoIds == [refl |-> 0, obj |-> 0, buf |-> 0, frames |-> 0, next |-> 1]

\* refl = <expression>: a new array.
BindRefl(d) == [d EXCEPT !.refl = d.next, !.next = d.next + 1]

\* refl_pretty = <expression>: a new DataArray over a new buffer.
BindPretty(d) == [d EXCEPT !.obj = d.next, !.buf = d.next + 1, !.next = d.next + 2]

\* refl_pretty.data = <expression>: the same DataArray over a new buffer.
SetData(d) == [d EXCEPT !.buf = d.next, !.next = d.next + 1]

\* frames = <expression>: a new array.
BindFrames(d) == [d EXCEPT !.frames = d.next, !.next = d.next + 1]

IsNaN(x) == x = NaN

----------------------------------------------------------------------------
(* Python sequence operations, with Python's index conventions.            *)

Abs(x) == IF x < 0 THEN -x ELSE x

Max2(a, b) == IF a > b THEN a ELSE b
Min2(a, b) == IF a < b THEN a ELSE b

\* Python element k (0-based) of s.
At(s, k) == s[k + 1]

\* slice.indices for step +1: clip a (possibly negative) bound into [0, n].
ClipFwd(b, n) == IF b < 0 THEN Max2(b + n, 0) ELSE Min2(b, n)

\* slice.indices for step -1: clip a bound into [-1, n-1].
ClipRev(b, n) == IF b < 0 THEN Max2(b + n, -1) ELSE Min2(b, n - 1)

\* s[start:stop]
Slice(s, start, stop) ==
    LET n  == Len(s)
        lo == ClipFwd(start, n)
        hi == ClipFwd(stop, n)
        m  == Max2(hi - lo, 0)
    IN  [j \in 1..m |-> At(s, lo + j - 1)]

\* s[start:stop:-1]
SliceRev(s, start, stop) ==
    LET n  == Len(s)
        hi == ClipRev(start, n)
        lo == ClipRev(stop, n)
        m  == Max2(hi - lo, 0)
    IN  [j \in 1..m |-> At(s, hi - (j - 1))]

\* s[start:]
SliceFrom(s, start) == Slice(s, start, Len(s))

----------------------------------------------------------------------------
(* The nadir cell: np.argmin(np.abs(...)) over three hard-coded slices.    *)

\* The smallest element of a non-empty set of integers.
MinOf(S) == CHOOSE v \in S : \A w \in S : v <= w

ArgMinLast(s) ==
    LET m == MinOf({Abs(At(s, k)) : k \in 0..(Len(s) - 1)})
    IN  CHOOSE k \in 0..(Len(s) - 1) :
            /\ Abs(At(s, k)) = m
            /\ \A j \in (k + 1)..(Len(s) - 1) : Abs(At(s, j)) # m

\* np.argmin(np.abs(s)) of a non-empty s: the index of the minimum of the
\* absolute values, the first one when the minimum occurs several times.
ArgMinAbs(s) ==
    LET m == MinOf({Abs(At(s, k)) : k \in 0..(Len(s) - 1)})
    IN  CHOOSE k \in 0..(Len(s) - 1) :
            /\ Abs(At(s, k)) = m
            /\ \A j \in 0..(k - 1) : Abs(At(s, j)) # m

\* np.argmin raises ValueError on an empty sequence.
ArgMinRaises(s) == Len(s) = 0

GreenSlice(a) == Slice(a, 0, GreenEnd)

RedSliceStrict(a) == IF Len(a) < RedEnd THEN <<>> ELSE Slice(a, RedStart, RedEnd)

RedSlice(a) == Slice(a, RedStart, RedEnd)
BlueSlice(a) == SliceFrom(a, BlueStart)

BlueNadirMissingOffset(a) == ArgMinAbs(BlueSlice(a))

GreenNadir(a) == ArgMinAbs(GreenSlice(a))
RedNadir(a) == RedStart + ArgMinAbs(RedSlice(a))
BlueNadir(a) == BlueStart + ArgMinAbs(BlueSlice(a))

\* The three assignments in order; the first ValueError ends the cell and
\* leaves the later names unassigned.
NadirCell ==
    /\ pc = "nadir"
    /\ \/ /\ ArgMinRaises(GreenSlice(angles))
          /\ err' = "ValueError"
          /\ pc' = "raised"
          /\ UNCHANGED <<green_nadir_idx, red_nadir_idx, blue_nadir_idx>>
       \/ /\ ~ArgMinRaises(GreenSlice(angles))
          /\ ArgMinRaises(RedSlice(angles))
          /\ green_nadir_idx' = GreenNadir(angles)
          /\ err' = "ValueError"
          /\ pc' = "raised"
          /\ UNCHANGED <<red_nadir_idx, blue_nadir_idx>>
       \/ /\ ~ArgMinRaises(GreenSlice(angles))
          /\ ~ArgMinRaises(RedSlice(angles))
          /\ ArgMinRaises(BlueSlice(angles))
          /\ green_nadir_idx' = GreenNadir(angles)
          /\ red_nadir_idx' = RedNadir(angles)
          /\ err' = "ValueError"
          /\ pc' = "raised"
          /\ UNCHANGED blue_nadir_idx
       \/ /\ ~ArgMinRaises(GreenSlice(angles))
          /\ ~ArgMinRaises(RedSlice(angles))
          /\ ~ArgMinRaises(BlueSlice(angles))
          /\ green_nadir_idx' = GreenNadir(angles)
          /\ red_nadir_idx' = RedNadir(angles)
          /\ blue_nadir_idx' = BlueNadir(angles)
          /\ pc' = "select"
          /\ UNCHANGED err
    /\ UNCHANGED ids
    /\ UNCHANGED <<paths, plotVars, range_it>>
    /\ UNCHANGED <<angles, rad, f0, sza, r, refl, refl_pretty, frames,
                   frame_src, i, tmp_exists, tmp_files, anim, out_file, saved>>

----------------------------------------------------------------------------
(* The bounce cell:                                                        *)
(*   frames = np.concatenate([refl_pretty, refl_pretty[..., -1:1:-1]], 2)  *)

\* Number of entries along the view axis (shape[2]).
NumViews(a) == Len(a[1])

BounceAllReversed(s) == s \o SliceRev(s, -1, -(Len(s) + 1))

BounceKeepsFrameOne(s) == s \o SliceRev(s, -1, 0)

\* One pixel's view axis, forward and then the slice [-1:1:-1].
BounceSeq(s) == s \o SliceRev(s, -1, 1)

\* The Python view indices 0..n-1 in order.
ViewIndices(n) == [k \in 1..n |-> k - 1]

BounceCell ==
    /\ pc = "bounce"
    /\ frames' = [p \in Pixels |-> BounceSeq(refl_pretty[p])]
    /\ frame_src' = BounceSeq(ViewIndices(NumViews(refl_pretty)))
    /\ pc' = "stage"
    /\ ids' = BindFrames(ids)
    /\ UNCHANGED <<paths, plotVars, range_it>>
    /\ UNCHANGED <<angles, green_nadir_idx, red_nadir_idx, blue_nadir_idx, rad,
                   f0, sza, r, refl, refl_pretty, i, tmp_exists, tmp_files,
                   anim, out_file, saved, err>>

----------------------------------------------------------------------------
(* Fixed-point arithmetic.  A float x is the integer floor(x * Q); NaN is  *)
(* NaN.  Every operation with a NaN operand yields NaN.  A float too large *)
(* for the fixed point is Huge when positive and -Huge when negative: the  *)
(* quotient of a positive number by the cosine of 90 degrees, which is not *)
(* 0 in floats.  All Huge (or -Huge) values of one array stand for the     *)
(* same float.                                                             *)

Q == 1000

Huge == 1000000000

\* np.pi, in units of 1/Q.
PiQ == (Q * 31416) \div 10000

\* np.cos(deg * np.pi / 180) in units of 1/Q, for the zenith angles used.
CosQ(deg) ==
    IF deg = 90 THEN 0
    ELSE IF deg = 60 THEN Q \div 2
    ELSE IF deg = 45 THEN (Q * 7071) \div 10000
    ELSE Q

SolarZeniths == {0, 60}

\* Zenith angles for the arrays that are normalized. Two floats that differ
\* take two places of the fixed point under them; at 60 degrees they do
\* not: 1 * pi / cos(60) and 2 * pi / cos(0) differ in the last bit only.
SeparableZeniths == {0, 45}

\* The width in bits of the floats of geo["solar_zenith_angle"], which the
\* file decides; numpy computes the cosine in that width.
FloatWidths == {32, 64}

\* A positive number divided by np.cos(90 * np.pi / 180): the cosine is
\* 6.1e-17 in float64 and -4.4e-08 in float32.
HorizonQuotient(w) == IF w = 64 THEN Huge ELSE -Huge

----------------------------------------------------------------------------
(* rad_to_refl and the cell that calls it.                                 *)

rad_to_refl_div_f0(L, F, z, d, w) ==
    IF IsNaN(L) \/ IsNaN(F) \/ IsNaN(z) THEN NaN
    ELSE IF CosQ(z) = 0 THEN (IF L = 0 THEN 0 ELSE HorizonQuotient(w))
    ELSE ((d * d) * PiQ * L * Q) \div (CosQ(z) * F)

rad_to_refl_fillna(L, F, z, d, w) ==
    IF IsNaN(F) \/ IsNaN(z) THEN NaN
    ELSE IF IsNaN(L) THEN 0
    ELSE IF CosQ(z) = 0 THEN (IF L = 0 \/ F = 0 THEN 0 ELSE HorizonQuotient(w))
    ELSE (((d * d) * PiQ * L * Q) \div CosQ(z)) * F

rad_to_refl_guarded(L, F, z, d, w) ==
    IF IsNaN(L) \/ IsNaN(F) \/ IsNaN(z) THEN NaN
    ELSE IF CosQ(z) = 0 THEN NaN
    ELSE (((d * d) * PiQ * L * Q) \div CosQ(z)) * F

\* (r**2) * np.pi * rad / np.cos(sza * np.pi / 180) * f0, one element;
\* L is the radiance, F the irradiance, z the zenith angle, d the distance
\* (L, F >= 0 and d > 0), w the width of the floats.  The division is
\* unguarded: the cosine of 90 degrees gives 0 for a zero numerator and
\* Huge or -Huge otherwise, and that times F is 0 for F = 0.
rad_to_refl(L, F, z, d, w) ==
    IF IsNaN(L) \/ IsNaN(F) \/ IsNaN(z) THEN NaN
    ELSE IF CosQ(z) = 0 THEN (IF L = 0 \/ F = 0 THEN 0 ELSE HorizonQuotient(w))
    ELSE (((d * d) * PiQ * L * Q) \div CosQ(z)) * F

\* xarray broadcasts rad (pixel, view) against f0 (view) and sza (pixel).
ReflCell ==
    /\ pc = "refl"
    /\ \E w \in FloatWidths :
          refl' = [p \in Pixels |->
                     [k \in 1..Len(rad[p]) |->
                         rad_to_refl(rad[p][k], f0[k], sza[p], r, w)]]
    /\ pc' = "normalize"
    /\ ids' = BindRefl(ids)
    /\ UNCHANGED <<paths, plotVars, range_it>>
    /\ UNCHANGED <<angles, green_nadir_idx, red_nadir_idx, blue_nadir_idx, rad,
                   f0, sza, r, refl_pretty, frames, frame_src, i, tmp_exists,
                   tmp_files, anim, out_file, saved, err>>

----------------------------------------------------------------------------
(* The normalisation cell:                                                 *)
(*   refl_red = refl[..., 10:70]                                           *)
(*   refl_pretty = (refl_red - refl_red.min()) / (refl_red.max() - ...)    *)

\* a[..., start:stop]
SliceViews(a, start, stop) == [p \in Pixels |-> Slice(a[p], start, stop)]

\* All values of an array, and those that are numbers.
Values(a) == UNION {{a[p][k] : k \in 1..Len(a[p])} : p \in Pixels}
Numbers(a) == {x \in Values(a) : ~IsNaN(x)}

MaxOf(S) == CHOOSE v \in S : \A w \in S : v >= w

ArrayMinKeepsNaN(a) ==
    IF NaN \in Values(a) \/ Numbers(a) = {} THEN NaN ELSE MinOf(Numbers(a))

\* DataArray.min() and .max(): over the whole array, NaN skipped; NaN when
\* every value is NaN.
ArrayMin(a) == IF Numbers(a) = {} THEN NaN ELSE MinOf(Numbers(a))
ArrayMax(a) == IF Numbers(a) = {} THEN NaN ELSE MaxOf(Numbers(a))

\* The reduction raises ValueError on an array with no element.
ReduceRaises(a) == Values(a) = {}

NormValueZeroFill(x, lo, hi) ==
    IF IsNaN(x) \/ IsNaN(lo) \/ IsNaN(hi) \/ hi = lo THEN 0
    ELSE IF hi = Huge THEN (IF x = Huge THEN Q ELSE 0)
    ELSE IF lo = -Huge THEN (IF x = -Huge THEN 0 ELSE Q)
    ELSE ((x - lo) * Q) \div (hi - lo)

NormValueGuardedRange(x, lo, hi) ==
    IF IsNaN(x) \/ IsNaN(lo) \/ IsNaN(hi) THEN NaN
    ELSE IF hi = lo THEN 0
    ELSE IF hi = Huge THEN (IF x = Huge THEN Q ELSE 0)
    ELSE IF lo = -Huge THEN (IF x = -Huge THEN 0 ELSE Q)
    ELSE ((x - lo) * Q) \div (hi - lo)

NormValueByMax(x, lo, hi) ==
    IF IsNaN(x) \/ IsNaN(lo) \/ IsNaN(hi) THEN NaN
    ELSE IF hi = lo THEN NaN
    ELSE IF hi = Huge THEN (IF x = Huge THEN Q ELSE 0)
    ELSE IF lo = -Huge THEN (IF x = -Huge THEN 0 ELSE Q)
    ELSE ((x - lo) * Q) \div hi

\* (x - lo) / (hi - lo) for one element; 0 / 0 is NaN.  With hi too large
\* for the fixed point, the quotient is 1 for x = hi and below 1 / Q for a
\* representable x.  With lo = -Huge, which only float32 gives, x - lo is
\* -lo for a representable x (x is below half the distance between two
\* floats at -lo), so the quotient is 1 for it and 0 for x = lo.
NormValue(x, lo, hi) ==
    IF IsNaN(x) \/ IsNaN(lo) \/ IsNaN(hi) THEN NaN
    ELSE IF hi = lo THEN NaN
    ELSE IF hi = Huge THEN (IF x = Huge THEN Q ELSE 0)
    ELSE IF lo = -Huge THEN (IF x = -Huge THEN 0 ELSE Q)
    ELSE ((x - lo) * Q) \div (hi - lo)

NormalizePerPixel(a) ==
    [p \in Pixels |->
        LET row == [q \in Pixels |-> a[p]]
            lo == ArrayMin(row)
            hi == ArrayMax(row)
        IN  [k \in 1..Len(a[p]) |-> NormValue(a[p][k], lo, hi)]]

Normalize(a) ==
    LET lo == ArrayMin(a)
        hi == ArrayMax(a)
    IN  [p \in Pixels |-> [k \in 1..Len(a[p]) |-> NormValue(a[p][k], lo, hi)]]

NormalizeCellInPlace ==
    /\ pc = "normalize"
    /\ LET refl_red == SliceViews(refl, RedStart, RedEnd)
       IN  \/ /\ ReduceRaises(refl_red)
              /\ err' = "ValueError"
              /\ pc' = "raised"
              /\ UNCHANGED <<refl, refl_pretty, ids>>
           \/ /\ ~ReduceRaises(refl_red)
              /\ refl_pretty' = Normalize(refl_red)
              /\ refl' = [p \in Pixels |->
                            [k \in 1..Len(refl[p]) |->
                                IF RedStart < k /\ k <= RedEnd
                                THEN Normalize(refl_red)[p][k - RedStart]
                                ELSE refl[p][k]]]
              /\ ids' = [ids EXCEPT !.obj = ids.next, !.buf = ids.refl,
                                    !.next = ids.next + 1]
              /\ pc' = "smooth"
              /\ UNCHANGED err
    /\ UNCHANGED <<paths, plotVars, range_it>>
    /\ UNCHANGED <<angles, green_nadir_idx, red_nadir_idx, blue_nadir_idx, rad,
                   f0, sza, r, frames, frame_src, i, tmp_exists,
                   tmp_files, anim, out_file, saved>>

NormalizeCell ==
    /\ pc = "normalize"
    /\ LET refl_red == SliceViews(refl, RedStart, RedEnd)
       IN  \/ /\ ReduceRaises(refl_red)
              /\ err' = "ValueError"
              /\ pc' = "raised"
              /\ UNCHANGED <<refl_pretty, ids>>
           \/ /\ ~ReduceRaises(refl_red)
              /\ refl_pretty' = Normalize(refl_red)
              /\ ids' = BindPretty(ids)
              /\ pc' = "smooth"
              /\ UNCHANGED err
    /\ UNCHANGED <<paths, plotVars, range_it>>
    /\ UNCHANGED <<angles, green_nadir_idx, red_nadir_idx, blue_nadir_idx, rad,
                   f0, sza, r, refl, frames, frame_src, i, tmp_exists,
                   tmp_files, anim, out_file, saved>>

----------------------------------------------------------------------------
(* The smoothing cell:                                                     *)
(*   refl_pretty.data = gaussian_filter1d(refl_pretty, sigma=0.5,          *)
(*                                        truncate=2, axis=2)              *)
(* The kernel radius is int(2 * 0.5 + 0.5) = 1; the weights are            *)
(* exp(-2), 1, exp(-2) divided by their sum; mode "reflect" repeats the    *)
(* edge value beyond each end of the axis.                                 *)

\* exp(-2) / (1 + 2 * exp(-2)) = 0.1065..., in units of 1/Q.
SideWeight == (Q * 1065) \div 10000
CentreWeightUnnormalised == Q

CentreWeight == Q - 2 * SideWeight

\* Element k (1-based) of s extended by reflection.
Reflected(s, k) == s[Min2(Max2(k, 1), Len(s))]

SmoothAtSkipNaN(s, k) ==
    LET nb == {j \in {k - 1, k, k + 1} : ~IsNaN(Reflected(s, j))}
    IN  IF nb = {} THEN NaN ELSE Reflected(s, MinOf(nb))

SmoothAtRadius2(s, k) ==
    LET a == Reflected(s, k - 1)
        b == Reflected(s, k)
        c == Reflected(s, k + 1)
    IN  IF \E j \in (k - 2)..(k + 2) : IsNaN(Reflected(s, j)) THEN NaN
        ELSE (SideWeight * a + CentreWeight * b + SideWeight * c) \div Q

SmoothAt(s, k) ==
    LET a == Reflected(s, k - 1)
        b == Reflected(s, k)
        c == Reflected(s, k + 1)
    IN  IF IsNaN(a) \/ IsNaN(b) \/ IsNaN(c) THEN NaN
        ELSE (SideWeight * a + CentreWeight * b + SideWeight * c) \div Q

gaussian_filter1d_axis0(a) ==
    [p \in Pixels |->
        [k \in 1..Len(a[p]) |-> SmoothAt([q \in Pixels |-> a[q][k]], p)]]

gaussian_filter1d(a) ==
    [p \in Pixels |-> [k \in 1..Len(a[p]) |-> SmoothAt(a[p], k)]]

SmoothCellResultDropped ==
    /\ pc = "smooth"
    /\ pc' = "gamma"
    /\ UNCHANGED ids
    /\ UNCHANGED <<paths, plotVars, range_it>>
    /\ UNCHANGED <<angles, green_nadir_idx, red_nadir_idx, blue_nadir_idx, rad,
                   f0, sza, r, refl, refl_pretty, frames, frame_src, i,
                   tmp_exists, tmp_files, anim, out_file, saved, err>>

SmoothCell ==
    /\ pc = "smooth"
    /\ refl_pretty' = gaussian_filter1d(refl_pretty)
    /\ pc' = "gamma"
    /\ ids' = SetData(ids)
    /\ UNCHANGED <<paths, plotVars, range_it>>
    /\ UNCHANGED <<angles, green_nadir_idx, red_nadir_idx, blue_nadir_idx, rad,
                   f0, sza, r, refl, frames, frame_src, i, tmp_exists,
                   tmp_files, anim, out_file, saved, err>>

----------------------------------------------------------------------------
(* The quantisation cell, one statement per step:                          *)
(*   refl_pretty = refl_pretty ** (2 / 3)                                  *)
(*   refl_pretty.data[np.isnan(refl_pretty)] = 0                           *)
(*   refl_pretty = (255 * refl_pretty).astype(np.uint8)                    *)

\* floor((x / Q) ** (2 / 3) * Q) for x in 0..Q.
PowTable ==
    [x \in 0..Q |-> CHOOSE c \in 0..Q :
                        /\ c * c * c <= x * x * Q
                        /\ (c + 1) * (c + 1) * (c + 1) > x * x * Q]

\* x ** (2 / 3): NaN for NaN and for a negative base.
Pow23(x) ==
    IF IsNaN(x) \/ x < 0 THEN NaN
    ELSE IF x <= Q THEN PowTable[x]
    ELSE CHOOSE c \in Q..x : /\ c * c * c <= x * x * Q
                             /\ (c + 1) * (c + 1) * (c + 1) > x * x * Q

GammaStmt ==
    /\ pc = "gamma"
    /\ refl_pretty' = [p \in Pixels |->
                        [k \in 1..Len(refl_pretty[p]) |-> Pow23(refl_pretty[p][k])]]
    /\ pc' = "nanfix"
    /\ ids' = BindPretty(ids)
    /\ UNCHANGED <<paths, plotVars, range_it>>
    /\ UNCHANGED <<angles, green_nadir_idx, red_nadir_idx, blue_nadir_idx, rad,
                   f0, sza, r, refl, frames, frame_src, i, tmp_exists,
                   tmp_files, anim, out_file, saved, err>>

\* data[np.isnan(data)] = 0
NanToZero(x) == IF IsNaN(x) THEN 0 ELSE x

NanFixStmtFresh ==
    /\ pc = "nanfix"
    /\ refl_pretty' = [p \in Pixels |->
                        [k \in 1..Len(refl_pretty[p]) |-> NanToZero(refl_pretty[p][k])]]
    /\ pc' = "cast"
    /\ ids' = BindPretty(ids)
    /\ UNCHANGED <<paths, plotVars, range_it>>
    /\ UNCHANGED <<angles, green_nadir_idx, red_nadir_idx, blue_nadir_idx, rad,
                   f0, sza, r, refl, frames, frame_src, i, tmp_exists,
                   tmp_files, anim, out_file, saved, err>>

NanFixStmt ==
    /\ pc = "nanfix"
    /\ refl_pretty' = [p \in Pixels |->
                        [k \in 1..Len(refl_pretty[p]) |-> NanToZero(refl_pretty[p][k])]]
    /\ pc' = "cast"
    /\ UNCHANGED ids
    /\ UNCHANGED <<paths, plotVars, range_it>>
    /\ UNCHANGED <<angles, green_nadir_idx, red_nadir_idx, blue_nadir_idx, rad,
                   f0, sza, r, refl, frames, frame_src, i, tmp_exists,
                   tmp_files, anim, out_file, saved, err>>

\* What the cast of a NaN to uint8 can give (C leaves it undefined).
NaNCasts == {0, 255}

CastU8Round(x, u) ==
    IF IsNaN(x) THEN u ELSE Min2((255 * x + (Q \div 2)) \div Q, 255)

\* (255 * x).astype(np.uint8): truncation, then wrap-around modulo 256;
\* u is the outcome of casting a NaN.
CastU8(x, u) == IF IsNaN(x) THEN u ELSE ((255 * x) \div Q) % 256

CastStmt ==
    /\ pc = "cast"
    /\ \E u \in NaNCasts :
          refl_pretty' = [p \in Pixels |->
                            [k \in 1..Len(refl_pretty[p]) |->
                                CastU8(refl_pretty[p][k], u)]]
    /\ pc' = "bounce"
    /\ ids' = BindPretty(ids)
    /\ UNCHANGED <<paths, plotVars, range_it>>
    /\ UNCHANGED <<angles, green_nadir_idx, red_nadir_idx, blue_nadir_idx, rad,
                   f0, sza, r, refl, frames, frame_src, i, tmp_exists,
                   tmp_files, anim, out_file, saved, err>>

----------------------------------------------------------------------------
(* The staging cell:                                                       *)
(*   with TemporaryDirectory() as tmp:                                     *)
(*       for i in range(frames.shape[2]):                                  *)
(*           frame = frames[..., i]                                        *)
(*           path = Path(tmp) / f"{i:04d}.png"                             *)
(*           imageio.imwrite(path, frame)                                  *)
(*           anim.append_file(path, delay=i)                               *)
(*       anim.save(...)                                                    *)
(* Creating the directory, writing a file, reading it back into the APNG   *)
(* and saving can each raise.  An exception raised inside the with block   *)
(* runs TemporaryDirectory.__exit__ before it leaves the cell.             *)

\* frames[..., k]
FrameAt(a, k) == [p \in Pixels |-> At(a[p], k)]

AfterIterationSkipsLast(k) == IF k + 2 < NumViews(frames) THEN "write" ELSE "save"

\* The statement after the body for loop value k: the next iteration, or
\* anim.save when range(frames.shape[2]) is exhausted.
AfterIteration(k) == IF k + 1 < NumViews(frames) THEN "write" ELSE "save"

\* An exception e leaves the cell.
Raise(e) ==
    /\ err' = e
    /\ pc' = "raised"

ExitTmpAfterSaveOnly ==
    IF pc = "save"
    THEN /\ tmp_exists' = FALSE
         /\ tmp_files' = <<>>
    ELSE UNCHANGED <<tmp_exists, tmp_files>>

\* TemporaryDirectory.__exit__: the directory and all its files are removed.
ExitTmp ==
    /\ tmp_exists' = FALSE
    /\ tmp_files' = <<>>

\* Entering the with block and starting the for statement, which makes a
\* new iterator over range(frames.shape[2]).
EnterTmp ==
    /\ pc = "stage"
    /\ \/ /\ tmp_exists' = TRUE
          /\ range_it' = 0
          /\ pc' = AfterIteration(-1)
          /\ UNCHANGED err
       \/ /\ Raise("mkdtemp failed")
          /\ UNCHANGED <<tmp_exists, range_it>>
    /\ UNCHANGED ids
    /\ UNCHANGED <<paths, plotVars>>
    /\ UNCHANGED <<angles, green_nadir_idx, red_nadir_idx, blue_nadir_idx, rad,
                   f0, sza, r, refl, refl_pretty, frames, frame_src, i,
                   tmp_files, anim, out_file, saved>>

\* The loop binds i to the next value of its iterator, whatever i was
\* before, and imageio.imwrite writes frame i to the file i.
WriteFrame ==
    /\ pc = "write"
    /\ i' = range_it
    /\ range_it' = range_it + 1
    /\ \/ /\ tmp_files' = [f \in DOMAIN tmp_files \cup {i'} |->
                              IF f = i' THEN FrameAt(frames, i') ELSE tmp_files[f]]
          /\ pc' = "append"
          /\ UNCHANGED <<tmp_exists, err>>
       \/ /\ Raise("imwrite failed")
          /\ ExitTmp
    /\ UNCHANGED ids
    /\ UNCHANGED <<paths, plotVars>>
    /\ UNCHANGED <<angles, green_nadir_idx, red_nadir_idx, blue_nadir_idx, rad,
                   f0, sza, r, refl, refl_pretty, frames, frame_src, anim,
                   out_file, saved>>

AppendFailureSwallowed ==
    /\ err' = "append_file failed"
    /\ pc' = AfterIteration(i)
    /\ UNCHANGED <<tmp_exists, tmp_files, anim>>

\* anim.append_file raises: the exception leaves the with block.
AppendFailure ==
    /\ Raise("append_file failed")
    /\ ExitTmp
    /\ UNCHANGED anim

AppendFrameFixedDelay ==
    /\ pc = "append"
    /\ \/ /\ anim' = Append(anim, [pos |-> i, delay |-> 1, image |-> tmp_files[i]])
          /\ pc' = AfterIteration(i)
          /\ UNCHANGED <<tmp_exists, tmp_files, err>>
       \/ AppendFailure
    /\ UNCHANGED ids
    /\ UNCHANGED <<paths, plotVars, range_it>>
    /\ UNCHANGED <<angles, green_nadir_idx, red_nadir_idx, blue_nadir_idx, rad,
                   f0, sza, r, refl, refl_pretty, frames, frame_src, i,
                   out_file, saved>>

\* anim.append_file(path, delay=i) reads the file i back.
AppendFrame ==
    /\ pc = "append"
    /\ \/ /\ anim' = Append(anim, [pos |-> i, delay |-> i, image |-> tmp_files[i]])
          /\ pc' = AfterIteration(i)
          /\ UNCHANGED <<tmp_exists, tmp_files, err>>
       \/ AppendFailure
    /\ UNCHANGED ids
    /\ UNCHANGED <<paths, plotVars, range_it>>
    /\ UNCHANGED <<angles, green_nadir_idx, red_nadir_idx, blue_nadir_idx, rad,
                   f0, sza, r, refl, refl_pretty, frames, frame_src, i,
                   out_file, saved>>

\* anim.save opens the output file for writing and writes the frames; the
\* with block ends after it.  A failing save may have created the file.
SaveAnim ==
    /\ pc = "save"
    /\ \/ /\ out_file' = "complete"
          /\ saved' = anim
          /\ pc' = "done"
          /\ UNCHANGED err
       \/ /\ out_file' \in {"absent", "partial"}
          /\ Raise("save failed")
          /\ UNCHANGED saved
    /\ ExitTmp
    /\ UNCHANGED ids
    /\ UNCHANGED <<paths, plotVars, range_it>>
    /\ UNCHANGED <<angles, green_nadir_idx, red_nadir_idx, blue_nadir_idx, rad,
                   f0, sza, r, refl, refl_pretty, frames, frame_src, i, anim>>

----------------------------------------------------------------------------
(* Inputs of the nadir cell: angle vectors of several lengths.  Every      *)
(* vector is the repeating pattern -5, 2, -1, 8 (unsorted, signed) with   *)
(* two entries, at most MaxGap apart, overwritten.                         *)

AnglePattern == <<-5, 2, -1, 8>>

BaseAngles(n) == [k \in 1..n |-> AnglePattern[((k - 1) % Len(AnglePattern)) + 1]]

EditAngles == {-1, 0, 1}

ViewCounts == {0, Len(AnglePattern), GreenEnd, GreenEnd + 1, RedEnd - GreenEnd,
               RedEnd, BlueStart, BlueStart + 1, BlueStart + Len(AnglePattern),
               MaxViews}

\* An array with no entries along the view axis.
EmptyArray == [p \in Pixels |-> <<>>]

\* No polarization plot has been started.
NoPlots ==
    /\ stokes = <<>>
    /\ dolp = <<>>
    /\ rgb_stokes = <<>>
    /\ window = <<>>
    /\ crop_rgb_stokes = <<>>
    /\ rgb_dolp = <<>>
    /\ crop_rgb_dolp = <<>>
    /\ crop_rgb = <<>>

InitNadir ==
    /\ \E n \in ViewCounts : \E e \in 1..Max2(n, 1) :
       \E j \in e..Max2(Min2(n, e + MaxGap), 1) :
       \E v \in EditAngles \cup {AnglePattern[1]} :
       \E w \in EditAngles \cup {AnglePattern[4]} :
          angles = IF n = 0 THEN <<>>
                   ELSE [[BaseAngles(n) EXCEPT ![e] = v] EXCEPT ![j] = w]
    /\ green_nadir_idx = Unbound
    /\ red_nadir_idx = Unbound
    /\ blue_nadir_idx = Unbound
    /\ rad = EmptyArray
    /\ f0 = <<>>
    /\ sza = <<>>
    /\ r = 1
    /\ refl = EmptyArray
    /\ refl_pretty = EmptyArray
    /\ frames = EmptyArray
    /\ frame_src = <<>>
    /\ i = Unbound
    /\ range_it = 0
    /\ tmp_exists = FALSE
    /\ tmp_files = <<>>
    /\ anim = <<>>
    /\ out_file = "absent"
    /\ saved = <<>>
    /\ pc = "nadir"
    /\ err = NoError
    /\ ids = NoIds
    /\ paths = <<>>
    /\ NoPlots

NextNadir == NadirCell

SpecNadir == InitNadir /\ [][NextNadir]_vars

----------------------------------------------------------------------------
(* Inputs of the bounce cell: every 8-bit array of 0..MaxFrames frames     *)
(* over two grey levels, and arrays of the red band's 60 frames.           *)

GreyLevels == {0, 255}

RedFrames == RedEnd - RedStart

SmallArrays == UNION {[Pixels -> [1..n -> GreyLevels]] : n \in 0..MaxFrames}

RampArrays ==
    {[p \in Pixels |-> [k \in 1..RedFrames |-> (m * k + p) % 256]] : m \in 1..MaxFrames}

InitBounce ==
    /\ refl_pretty \in SmallArrays \cup RampArrays
    /\ angles = <<>>
    /\ green_nadir_idx = Unbound
    /\ red_nadir_idx = Unbound
    /\ blue_nadir_idx = Unbound
    /\ rad = EmptyArray
    /\ f0 = <<>>
    /\ sza = <<>>
    /\ r = 1
    /\ refl = EmptyArray
    /\ frames = EmptyArray
    /\ frame_src = <<>>
    /\ i = 1                  \* as the loop of the DoLP plot cell left it
    /\ range_it = 0
    /\ tmp_exists = FALSE
    /\ tmp_files = <<>>
    /\ anim = <<>>
    /\ out_file = "absent"
    /\ saved = <<>>
    /\ pc = "bounce"
    /\ err = NoError
    /\ ids = BindPretty(NoIds)
    /\ paths = <<>>
    /\ NoPlots

NextBounce == BounceCell

SpecBounce == InitBounce /\ [][NextBounce]_vars

----------------------------------------------------------------------------
(* Inputs of the animation pipeline.  The radiance is a fixed non-constant *)
(* pattern over n views with two entries at or next to either end of the   *)
(* red band, of the same pixel or of neighbouring pixels, overwritten by   *)
(* NaN or by a number; n is 10 + N for a red band of N = 0..MaxFrames      *)
(* views, or the full MaxViews.                                            *)

MaxRad == 2           \* radiances are 0..MaxRad
MaxSpread == 2        \* largest view distance between two overwritten entries

BaseRad(n) == [p \in Pixels |-> [k \in 1..n |-> (k + p) % (MaxRad + 1)]]

EditRads == {NaN, 0, MaxRad}

PipeViewCounts == {RedStart + n : n \in 0..MaxFrames} \cup {MaxViews}

\* BaseRad(n) with (p1, k1) and (p2, k2) overwritten by v1 and v2.
EditedRad(n, p1, k1, v1, p2, k2, v2) ==
    [p \in Pixels |->
        [k \in 1..n |->
            IF p = p2 /\ k = k2 THEN v2
            ELSE IF p = p1 /\ k = k1 THEN v1
            ELSE BaseRad(n)[p][k]]]

InitData ==
    /\ angles = <<>>
    /\ green_nadir_idx = Unbound
    /\ red_nadir_idx = Unbound
    /\ blue_nadir_idx = Unbound
    /\ f0 = [k \in 1..NumViews(rad) |-> 1]
    /\ r = 1
    /\ refl = EmptyArray
    /\ refl_pretty = EmptyArray
    /\ frames = EmptyArray
    /\ frame_src = <<>>
    /\ i = 1                  \* as the loop of the DoLP plot cell left it
    /\ range_it = 0
    /\ tmp_exists = FALSE
    /\ tmp_files = <<>>
    /\ anim = <<>>
    /\ out_file = "absent"
    /\ saved = <<>>
    /\ pc = "refl"
    /\ err = NoError
    /\ ids = NoIds
    /\ paths = <<>>
    /\ NoPlots

InitPipe ==
    /\ \E n \in PipeViewCounts :
       \E p1 \in Pixels :
       \E p2 \in {p1, (p1 % NumPixels) + 1} :
       \E k1 \in {k \in (RedStart - MaxSpread)..Min2(n, RedEnd + MaxSpread) :
                     \/ k <= RedStart + 2 * MaxSpread + 1
                     \/ k >= RedEnd - 2 * MaxSpread} :
       \E k2 \in k1..Min2(n, k1 + MaxSpread) :
       \E v1 \in EditRads, v2 \in {NaN, MaxRad} :
          rad = EditedRad(n, p1, k1, v1, p2, k2, v2)
    /\ sza = [p \in Pixels |-> 0]
    /\ InitData

NextPipe ==
    \/ ReflCell
    \/ NormalizeCell
    \/ SmoothCell
    \/ GammaStmt
    \/ NanFixStmt
    \/ CastStmt
    \/ BounceCell

SpecPipe == InitPipe /\ [][NextPipe]_vars

\* The whole animation, staging included, on radiances with one entry of
\* the red band overwritten and the sun overhead or at 60 degrees.
InitAnim ==
    /\ \E n \in PipeViewCounts :
       \E v1 \in EditRads :
          rad = EditedRad(n, 1, Min2(n, RedStart + 1), v1, 1, Min2(n, RedStart + 1), v1)
    /\ \E z \in SolarZeniths : sza = [p \in Pixels |-> IF p = 1 THEN z ELSE 0]
    /\ InitData

Next ==
    \/ NextPipe
    \/ EnterTmp
    \/ WriteFrame
    \/ AppendFrame
    \/ SaveAnim

Spec == InitAnim /\ [][Next]_vars

----------------------------------------------------------------------------
(* Inputs of the reflectance cell alone: a radiance of 1..MaxFrames views  *)
(* with one entry overwritten, an irradiance alternating between 2 and 1   *)
(* along the views with one entry overwritten, a solar zenith of 0, 60 or  *)
(* 90 degrees or NaN per pixel, and a sun-earth distance of 1 or 2.        *)

Irradiances == {1, 2}

Distances == {1, 2}

BaseF0(n) == [k \in 1..n |-> 1 + (k % 2)]

InitRefl ==
    /\ \E n \in 1..MaxFrames :
       \E p1 \in Pixels, k1 \in 1..n, v1 \in EditRads \cup {1} :
       \E kf \in 1..n, vf \in Irradiances \cup {NaN} :
          /\ rad = EditedRad(n, p1, k1, v1, p1, k1, v1)
          /\ f0 = [BaseF0(n) EXCEPT ![kf] = vf]
    /\ \E z1 \in SolarZeniths \cup {90, NaN}, z2 \in SolarZeniths :
          sza = [p \in Pixels |-> IF p = 1 THEN z1 ELSE z2]
    /\ r \in Distances
    /\ angles = <<>>
    /\ green_nadir_idx = Unbound
    /\ red_nadir_idx = Unbound
    /\ blue_nadir_idx = Unbound
    /\ refl = EmptyArray
    /\ refl_pretty = EmptyArray
    /\ frames = EmptyArray
    /\ frame_src = <<>>
    /\ i = 1                  \* as the loop of the DoLP plot cell left it
    /\ range_it = 0
    /\ tmp_exists = FALSE
    /\ tmp_files = <<>>
    /\ anim = <<>>
    /\ out_file = "absent"
    /\ saved = <<>>
    /\ pc = "refl"
    /\ err = NoError
    /\ ids = NoIds
    /\ paths = <<>>
    /\ NoPlots

NextRefl == ReflCell

SpecRefl == InitRefl /\ [][NextRefl]_vars

----------------------------------------------------------------------------
(* Inputs for the numeric edge cases: a radiance that is MaxRad everywhere *)
(* with two entries of the red band overwritten by NaN, 0 or MaxRad, under *)
(* a sun at the zenith or on the horizon (90 degrees) at each pixel; the   *)
(* red band has 0..MaxFrames views.  The cells up to the smoothing run.    *)

LevelRads == {NaN, 0, MaxRad}

\* The radiance MaxRad with (p1, k1) and (p2, k2) overwritten by v1 and v2.
LevelRad(n, p1, k1, v1, p2, k2, v2) ==
    [p \in Pixels |->
        [k \in 1..n |->
            IF p = p2 /\ k = k2 THEN v2
            ELSE IF p = p1 /\ k = k1 THEN v1
            ELSE MaxRad]]

InitEdge ==
    /\ \E n \in {RedStart + m : m \in 0..MaxFrames} :
       \E p1 \in Pixels, p2 \in Pixels :
       \E k1 \in RedStart..n :
       \E k2 \in k1..n :
       \E v1 \in LevelRads, v2 \in LevelRads :
          rad = LevelRad(n, p1, k1, v1, p2, k2, v2)
    /\ sza \in [Pixels -> {0, 90}]
    /\ InitData

NextEdge ==
    \/ ReflCell
    \/ NormalizeCell
    \/ SmoothCell

SpecEdge == InitEdge /\ [][NextEdge]_vars

----------------------------------------------------------------------------
(* Inputs for the normalisation, smoothing and quantisation of small       *)
(* arrays: a red band of 0..MaxFrames views; the radiance is constant 0 or *)
(* a pattern over 0..MaxRad, with two entries overwritten; the sun is at   *)
(* the zenith or at 45 degrees over pixel 1, which raises its              *)
(* reflectances, and at the zenith over the others.                        *)

\* Step 0 is the constant 0, step 1 the pattern of BaseRad.
RadSteps == {0, 1}

StepRad(n, m, p1, k1, v1, p2, k2, v2) ==
    [p \in Pixels |->
        [k \in 1..n |->
            IF p = p2 /\ k = k2 THEN v2
            ELSE IF p = p1 /\ k = k1 THEN v1
            ELSE (m * (k + p)) % (MaxRad + 1)]]

InitNorm ==
    /\ \E n \in {RedStart + m : m \in 0..MaxFrames} :
       \E m \in RadSteps :
       \E p1 \in Pixels, p2 \in Pixels :
       \E k1 \in RedStart..n :
       \E k2 \in k1..n :
       \E v1 \in EditRads, v2 \in EditRads :
          rad = StepRad(n, m, p1, k1, v1, p2, k2, v2)
    /\ \E z \in SeparableZeniths : sza = [p \in Pixels |-> IF p = 1 THEN z ELSE 0]
    /\ InitData

NextNorm == NextPipe

SpecNorm == InitNorm /\ [][NextNorm]_vars

----------------------------------------------------------------------------
(* The file-structure notebook's check for direct access:                  *)
(*   paths = earthaccess.open(results)                                     *)
(*   try:                                                                  *)
(*       paths[0].f.bucket                                                 *)
(*   except AttributeError:                                                *)
(*       raise "The result opened without an S3FileSystem."                *)

MaxPaths == 4         \* most granules a search returns

\* What an opened granule can be: a file of an S3FileSystem (its .f has a
\* bucket), a file of another file system (its .f has no bucket), or an
\* object without .f.
FileKinds == {"S3File", "HTTPFile", "NoF"}

\* The attribute chain x.f.bucket resolves.
HasBucket(x) == x = "S3File"

OpenCell ==
    /\ pc = "open"
    /\ paths' \in UNION {[1..n -> FileKinds] : n \in 0..MaxPaths}
    /\ pc' = "check"
    /\ UNCHANGED <<err, ids, plotVars, range_it>>
    /\ UNCHANGED <<angles, green_nadir_idx, red_nadir_idx, blue_nadir_idx, rad,
                   f0, sza, r, refl, refl_pretty, frames, frame_src, i,
                   tmp_exists, tmp_files, anim, out_file, saved>>

DirectAccessCheckSilent ==
    /\ pc = "check"
    /\ IF Len(paths) = 0 THEN Raise("IndexError")
       ELSE pc' = "checked" /\ UNCHANGED err
    /\ UNCHANGED <<paths, ids, plotVars, range_it>>
    /\ UNCHANGED <<angles, green_nadir_idx, red_nadir_idx, blue_nadir_idx, rad,
                   f0, sza, r, refl, refl_pretty, frames, frame_src, i,
                   tmp_exists, tmp_files, anim, out_file, saved>>

\* paths[0] of an empty list raises IndexError, which the cell does not
\* catch. The handler's raise of a str is itself an error: Python 3 raises
\* TypeError (exceptions must derive from BaseException).
DirectAccessCheck ==
    /\ pc = "check"
    /\ IF Len(paths) = 0 THEN Raise("IndexError")
       ELSE IF HasBucket(paths[1]) THEN pc' = "checked" /\ UNCHANGED err
       ELSE Raise("TypeError")
    /\ UNCHANGED <<paths, ids, plotVars, range_it>>
    /\ UNCHANGED <<angles, green_nadir_idx, red_nadir_idx, blue_nadir_idx, rad,
                   f0, sza, r, refl, refl_pretty, frames, frame_src, i,
                   tmp_exists, tmp_files, anim, out_file, saved>>

InitAccess ==
    /\ pc = "open"
    /\ paths = <<>>
    /\ err = NoError
    /\ ids = NoIds
    /\ NoPlots
    /\ angles = <<>>
    /\ green_nadir_idx = Unbound
    /\ red_nadir_idx = Unbound
    /\ blue_nadir_idx = Unbound
    /\ rad = EmptyArray
    /\ f0 = <<>>
    /\ sza = <<>>
    /\ r = 1
    /\ refl = EmptyArray
    /\ refl_pretty = EmptyArray
    /\ frames = EmptyArray
    /\ frame_src = <<>>
    /\ i = Unbound
    /\ range_it = 0
    /\ tmp_exists = FALSE
    /\ tmp_files = <<>>
    /\ anim = <<>>
    /\ out_file = "absent"
    /\ saved = <<>>

NextAccess ==
    \/ OpenCell
    \/ DirectAccessCheck

SpecAccess == InitAccess /\ [][NextAccess]_vars

----------------------------------------------------------------------------
(* The polarization plots. A DataArray over (bins_along_track,             *)
(* bins_across_track, number_of_views) is [row][column][view]; the Dataset  *)
(* stokes maps each of its variables to one.                                *)

NumRows == 3          \* bins along the track
NumCols == 3          \* bins across the track

Rows == 1..NumRows
Cols == 1..NumCols

StokesVars == {"i", "q", "u"}

\* a.isel({"number_of_views": idx}) for a list idx of view indices.
Isel(a, idx) ==
    [row \in 1..Len(a) |->
        [col \in 1..Len(a[row]) |->
            [j \in 1..Len(idx) |-> At(a[row][col], idx[j])]]]

\* The cell "rgb_stokes = stokes.isel(...)": the views in the order red,
\* green, blue.
SelectCell ==
    /\ pc = "select"
    /\ rgb_stokes' = [v \in StokesVars |->
                        Isel(stokes[v], <<red_nadir_idx, green_nadir_idx,
                                          blue_nadir_idx>>)]
    /\ pc' = "rescale"
    /\ UNCHANGED <<stokes, dolp, window, crop_rgb_stokes, rgb_dolp,
                   crop_rgb_dolp, crop_rgb>>
    /\ UNCHANGED <<paths, ids, range_it>>
    /\ UNCHANGED <<angles, green_nadir_idx, red_nadir_idx, blue_nadir_idx, rad,
                   f0, sza, r, refl, refl_pretty, frames, frame_src, i,
                   tmp_exists, tmp_files, anim, out_file, saved, err>>

\* The numbers of a DataArray.
Numbers3(a) ==
    {x \in UNION {UNION {{a[row][col][k] : k \in 1..Len(a[row][col])} :
                            col \in 1..Len(a[row])} : row \in 1..Len(a)} :
        ~IsNaN(x)}

\* DataArray.min() and .max(), NaN skipped.
Min3(a) == IF Numbers3(a) = {} THEN NaN ELSE MinOf(Numbers3(a))
Max3(a) == IF Numbers3(a) = {} THEN NaN ELSE MaxOf(Numbers3(a))

Rescale3(a, lo, hi) ==
    [row \in 1..Len(a) |->
        [col \in 1..Len(a[row]) |->
            [k \in 1..Len(a[row][col]) |-> NormValue(a[row][col][k], lo, hi)]]]

DatasetRescaleShared(ds) ==
    LET lo == MinOf({Min3(ds[v]) : v \in {w \in StokesVars : ~IsNaN(Min3(ds[w]))}})
        hi == MaxOf({Max3(ds[v]) : v \in {w \in StokesVars : ~IsNaN(Max3(ds[w]))}})
    IN  [v \in StokesVars |-> Rescale3(ds[v], lo, hi)]

\* (ds - ds.min()) / (ds.max() - ds.min()): Dataset.min() and .max() reduce
\* each data variable on its own, and the arithmetic pairs the variables by
\* name.
DatasetRescale(ds) ==
    [v \in StokesVars |-> Rescale3(ds[v], Min3(ds[v]), Max3(ds[v]))]

RescaleStmt ==
    /\ pc = "rescale"
    /\ rgb_stokes' = DatasetRescale(rgb_stokes)
    /\ pc' = "power"
    /\ UNCHANGED <<stokes, dolp, window, crop_rgb_stokes, rgb_dolp,
                   crop_rgb_dolp, crop_rgb>>
    /\ UNCHANGED <<paths, ids, range_it>>
    /\ UNCHANGED <<angles, green_nadir_idx, red_nadir_idx, blue_nadir_idx, rad,
                   f0, sza, r, refl, refl_pretty, frames, frame_src, i,
                   tmp_exists, tmp_files, anim, out_file, saved, err>>

\* floor(sqrt(x / Q) * Q) for x in 0..Q; the root of a number in [0, 1] is
\* not below the number.
SqrtTable ==
    [x \in 0..Q |-> CHOOSE c \in x..Q : /\ c * c <= x * Q
                                        /\ (c + 1) * (c + 1) > x * Q]

\* (x / Q) ** (3 / 4) * Q for x in 0..Q, as sqrt(x * sqrt(x)) rounded down;
\* it lies between x and the square root of x.
Pow34Table ==
    [x \in 0..Q |-> CHOOSE c \in x..SqrtTable[x] :
                        /\ c * c <= x * SqrtTable[x]
                        /\ (c + 1) * (c + 1) > x * SqrtTable[x]]

\* x ** (3 / 4): NaN for NaN; the base is in [0, 1] after the rescaling.
Pow34(x) == IF IsNaN(x) \/ x < 0 \/ x > Q THEN NaN ELSE Pow34Table[x]

PowerStmt ==
    /\ pc = "power"
    /\ rgb_stokes' = [v \in StokesVars |->
                        [row \in Rows |-> [col \in Cols |->
                            [k \in 1..Len(rgb_stokes[v][row][col]) |->
                                Pow34(rgb_stokes[v][row][col][k])]]]]
    /\ pc' = "window"
    /\ UNCHANGED <<stokes, dolp, window, crop_rgb_stokes, rgb_dolp,
                   crop_rgb_dolp, crop_rgb>>
    /\ UNCHANGED <<paths, ids, range_it>>
    /\ UNCHANGED <<angles, green_nadir_idx, red_nadir_idx, blue_nadir_idx, rad,
                   f0, sza, r, refl, refl_pretty, frames, frame_src, i,
                   tmp_exists, tmp_files, anim, out_file, saved, err>>

\* The elements of a set of numbers in increasing order (np.unique).
Sorted(S) ==
    [j \in 1..Cardinality(S) |->
        CHOOSE x \in S : Cardinality({y \in S : y < x}) = j - 1]

\* a.notnull().all("number_of_views")
NotNullAll(a) ==
    [row \in 1..Len(a) |->
        [col \in 1..Len(a[row]) |->
            \A k \in 1..Len(a[row][col]) : ~IsNaN(a[row][col][k])]]

\* w.any("bins_along_track") & w.any("bins_across_track"): the first is
\* per column, the second per row, and & broadcasts them over the pixels.
AnyAny(w) ==
    [row \in Rows |->
        [col \in Cols |-> /\ \E r2 \in Rows : w[r2][col]
                          /\ \E c2 \in Cols : w[row][c2]]]

WhereDropBox(a, cond) ==
    LET rws == {row \in Rows : \E col \in Cols : cond[row][col]}
        cls == {col \in Cols : \E row \in Rows : cond[row][col]}
        rlo == IF rws = {} THEN 1 ELSE MinOf(rws)
        rhi == IF rws = {} THEN 0 ELSE MaxOf(rws)
        clo == IF cls = {} THEN 1 ELSE MinOf(cls)
        chi == IF cls = {} THEN 0 ELSE MaxOf(cls)
    IN  [j \in 1..(rhi - rlo + 1) |->
            [l \in 1..(chi - clo + 1) |->
                IF cond[rlo + j - 1][clo + l - 1]
                THEN a[rlo + j - 1][clo + l - 1]
                ELSE [k \in 1..Len(a[rlo + j - 1][clo + l - 1]) |-> NaN]]]

\* a.where(cond, drop=True): the positions where cond is True somewhere
\* along each dimension are selected (np.nonzero, np.unique, isel), then the
\* elements whose cond is False become NaN.
WhereDrop(a, cond) ==
    LET rws == Sorted({row \in Rows : \E col \in Cols : cond[row][col]})
        cls == Sorted({col \in Cols : \E row \in Rows : cond[row][col]})
    IN  [j \in 1..Len(rws) |->
            [l \in 1..Len(cls) |->
                IF cond[rws[j]][cls[l]] THEN a[rws[j]][cls[l]]
                ELSE [k \in 1..Len(a[rws[j]][cls[l]]) |-> NaN]]]

\* The cell that makes window and crop_rgb_stokes; where() applies to every
\* data variable of the Dataset.
CropStokesCell ==
    /\ pc = "window"
    /\ window' = NotNullAll(rgb_stokes["i"])
    /\ crop_rgb_stokes' = [v \in StokesVars |->
                              WhereDrop(rgb_stokes[v], AnyAny(window'))]
    /\ pc' = "plot_stokes"
    /\ UNCHANGED <<stokes, dolp, rgb_stokes, rgb_dolp, crop_rgb_dolp,
                   crop_rgb>>
    /\ UNCHANGED <<paths, ids, range_it>>
    /\ UNCHANGED <<angles, green_nadir_idx, red_nadir_idx, blue_nadir_idx, rad,
                   f0, sza, r, refl, refl_pretty, frames, frame_src, i,
                   tmp_exists, tmp_files, anim, out_file, saved, err>>

\* The cell that draws I, Q and U:
\*   for i, (key, value) in enumerate(crop_rgb_stokes.items()): ...
\* The loop binds i to 0, 1, 2, one per data variable; the figure is not
\* part of the state.
PlotStokesCell ==
    /\ pc = "plot_stokes"
    /\ i' = Cardinality(DOMAIN crop_rgb_stokes) - 1
    /\ pc' = "dolp"
    /\ UNCHANGED <<paths, ids, range_it, plotVars>>
    /\ UNCHANGED <<angles, green_nadir_idx, red_nadir_idx, blue_nadir_idx, rad,
                   f0, sza, r, refl, refl_pretty, frames, frame_src,
                   tmp_exists, tmp_files, anim, out_file, saved, err>>

DolpVars == {"dolp"} \cup StokesVars

\* The cell that makes rgb_dolp, crop_rgb_dolp and crop_rgb; xr.merge puts
\* the DataArray named dolp beside the variables of crop_rgb_stokes.
CropDolpCell ==
    /\ pc = "dolp"
    /\ rgb_dolp' = Isel(dolp, <<red_nadir_idx, green_nadir_idx, blue_nadir_idx>>)
    /\ crop_rgb_dolp' = WhereDrop(rgb_dolp', AnyAny(window))
    /\ crop_rgb' = [v \in DolpVars |->
                       IF v = "dolp" THEN crop_rgb_dolp'
                       ELSE crop_rgb_stokes[v]]
    /\ pc' = "plot_dolp"
    /\ UNCHANGED <<stokes, dolp, rgb_stokes, window, crop_rgb_stokes>>
    /\ UNCHANGED <<paths, ids, range_it>>
    /\ UNCHANGED <<angles, green_nadir_idx, red_nadir_idx, blue_nadir_idx, rad,
                   f0, sza, r, refl, refl_pretty, frames, frame_src, i,
                   tmp_exists, tmp_files, anim, out_file, saved, err>>

\* The cell that draws I beside DoLP:
\*   for i, (key, value) in enumerate(crop_rgb[["i", "dolp"]].items()): ...
\* The loop binds i to 0 and 1.
PlotDolpCell ==
    /\ pc = "plot_dolp"
    /\ i' = Cardinality({"i", "dolp"} \cap DOMAIN crop_rgb) - 1
    /\ pc' = "plotted"
    /\ UNCHANGED <<paths, ids, range_it, plotVars>>
    /\ UNCHANGED <<angles, green_nadir_idx, red_nadir_idx, blue_nadir_idx, rad,
                   f0, sza, r, refl, refl_pretty, frames, frame_src,
                   tmp_exists, tmp_files, anim, out_file, saved, err>>

(* Inputs of the polarization plots: a full vector of angles with a zero   *)
(* at one position, which makes that view the nadir of its band; I is a    *)
(* pattern of 0..MaxRad, flat or not, Q and U are signed patterns and DoLP  *)
(* a pattern of its own. I is NaN on one row, on one column (none when the  *)
(* number is 0) and at one more pixel of the diagonal, there in every view  *)
(* or only in the view of the zero angle; Q is NaN at the first pixel.      *)

ZeroAngleViews == {1, GreenEnd, RedStart + 1, RedEnd, BlueStart + 1, MaxViews}

\* The unmasked element of variable v.
StokesValue(v, lev, row, col, k) ==
    IF v = "i" THEN lev * ((row + col + k) % (MaxRad + 1))
    ELSE IF v = "q"
         THEN (IF row = 1 /\ col = 1 THEN NaN
               ELSE ((row + 2 * col + k) % (2 * MaxRad + 2)) - MaxRad)
    ELSE ((2 * row + col + k) % (2 * MaxRad + 1)) - 2 * MaxRad

BaseDolp(n) ==
    [row \in Rows |-> [col \in Cols |-> [k \in 1..n |->
        IF (row + col + k) % 7 = 0 THEN NaN ELSE (row * col + k) % (MaxRad + 1)]]]

\* The Dataset with the NaN of I put in.
MaskedStokes(n, lev, br, bc, pr, pcl, kn) ==
    [v \in StokesVars |->
        [row \in Rows |-> [col \in Cols |-> [k \in 1..n |->
            IF /\ v = "i"
               /\ \/ row = br
                  \/ col = bc
                  \/ (row = pr /\ col = pcl /\ (kn = 0 \/ kn = k))
            THEN NaN
            ELSE StokesValue(v, lev, row, col, k)]]]]

InitStokes ==
    /\ \E e \in ZeroAngleViews :
          /\ angles = [BaseAngles(MaxViews) EXCEPT ![e] = 0]
          /\ \E br \in 0..NumRows, bc \in 0..NumCols :
             \E lev \in (IF br = 0 /\ bc = 0 THEN {0, 1} ELSE {1}) :
             \E pr \in Rows, kn \in {0, e} :
                stokes = MaskedStokes(MaxViews, lev, br, bc, pr,
                                      Min2(pr, NumCols), kn)
    /\ dolp = BaseDolp(MaxViews)
    /\ rgb_stokes = <<>>
    /\ window = <<>>
    /\ crop_rgb_stokes = <<>>
    /\ rgb_dolp = <<>>
    /\ crop_rgb_dolp = <<>>
    /\ crop_rgb = <<>>
    /\ pc = "nadir"
    /\ err = NoError
    /\ ids = NoIds
    /\ paths = <<>>
    /\ green_nadir_idx = Unbound
    /\ red_nadir_idx = Unbound
    /\ blue_nadir_idx = Unbound
    /\ rad = EmptyArray
    /\ f0 = <<>>
    /\ sza = <<>>
    /\ r = 1
    /\ refl = EmptyArray
    /\ refl_pretty = EmptyArray
    /\ frames = EmptyArray
    /\ frame_src = <<>>
    /\ i = Unbound
    /\ range_it = 0
    /\ tmp_exists = FALSE
    /\ tmp_files = <<>>
    /\ anim = <<>>
    /\ out_file = "absent"
    /\ saved = <<>>

NextStokes ==
    \/ NadirCell
    \/ SelectCell
    \/ RescaleStmt
    \/ PowerStmt
    \/ CropStokesCell
    \/ PlotStokesCell
    \/ CropDolpCell
    \/ PlotDolpCell

SpecStokes == InitStokes /\ [][NextStokes]_vars

----------------------------------------------------------------------------
(* Claims about the bounce cell (SpecBounce).                              *)

\* Number of input frames of the bounce cell.
InFrames == NumViews(refl_pretty)

\* The view indices n-2, n-3, ..., 1.
InnerReversed(n) == [j \in 1..Max2(n - 2, 0) |-> n - 1 - j]

\* C1: for N >= 3 input frames the bounce sequence is the N frames in order
\* followed by the frames of view indices N-2, N-3, ..., 1.
C1_FrameOrder ==
    (pc = "stage" /\ InFrames >= 3) =>
        /\ frame_src = ViewIndices(InFrames) \o InnerReversed(InFrames)
        /\ \A p \in Pixels :
              frames[p] = refl_pretty[p] \o
                          [j \in 1..(InFrames - 2) |->
                              At(refl_pretty[p], InnerReversed(InFrames)[j])]

\* C2: for N >= 2 input frames the bounce sequence has exactly 2N - 2
\* frames, at every pixel.
C2_FrameCount ==
    (pc = "stage" /\ InFrames >= 2) =>
        /\ Len(frame_src) = 2 * InFrames - 2
        /\ \A p \in Pixels : Len(frames[p]) = 2 * InFrames - 2

C2_Witness ==
    /\ pc = "stage"
    /\ InFrames = RedFrames
    /\ NumViews(frames) = 118

\* C3 as stated: with fewer than 2 input frames the bounce cell raises an
\* error and produces no frame sequence.
C3_InsufficientFramesRaised ==
    (pc # "bounce" /\ InFrames < 2) =>
        /\ err # NoError
        /\ frames = EmptyArray

\* C3 as amended: with fewer than 2 input frames the bounce cell raises no
\* error and returns the input frames unchanged (no frame for N = 0, the
\* one frame for N = 1).
C3_ShortInputPassesThrough ==
    (pc = "stage" /\ InFrames < 2) =>
        /\ err = NoError
        /\ frames = refl_pretty
        /\ frame_src = ViewIndices(InFrames)

C3_Witness ==
    /\ pc = "stage"
    /\ InFrames = 1
    /\ NumViews(frames) = 1
    /\ err = NoError

\* C4: played as a loop the bounce sequence is seamless: the view indices
\* of each position and the next (the last wrapping to the first) differ
\* by exactly 1.
C4_SeamlessLoop ==
    (pc = "stage" /\ InFrames >= 2) =>
        \A q \in 1..Len(frame_src) :
            Abs(frame_src[q] - frame_src[(q % Len(frame_src)) + 1]) = 1

----------------------------------------------------------------------------
(* Claims about the nadir cell (SpecNadir).                                *)

\* The absolute indices of a band's range [lo, hi) that exist in angles.
BandIndices(lo, hi) == {k \in lo..(hi - 1) : k < Len(angles)}

\* idx is the first index of the band with the minimum absolute angle.
IsFirstNadir(idx, band) ==
    /\ idx \in band
    /\ \A k \in band : Abs(At(angles, idx)) <= Abs(At(angles, k))
    /\ \A k \in band : k < idx => Abs(At(angles, k)) > Abs(At(angles, idx))

\* C5: each index the nadir cell binds is the absolute index of the first
\* channel of minimum absolute angle in its band range; for range angles
\* -5, 2, -1, 8 it is the index of -1.
C5_NadirIsFirstMinAbs ==
    /\ pc = "select" =>
          /\ green_nadir_idx # Unbound
          /\ red_nadir_idx # Unbound
          /\ blue_nadir_idx # Unbound
    /\ green_nadir_idx # Unbound =>
          IsFirstNadir(green_nadir_idx, BandIndices(0, GreenEnd))
    /\ red_nadir_idx # Unbound =>
          IsFirstNadir(red_nadir_idx, BandIndices(RedStart, RedEnd))
    /\ blue_nadir_idx # Unbound =>
          IsFirstNadir(blue_nadir_idx, BandIndices(BlueStart, Len(angles)))
    /\ (pc = "select" /\ BlueSlice(angles) = AnglePattern) =>
          blue_nadir_idx = BlueStart + 2

C5_Witness ==
    /\ pc = "select"
    /\ BlueSlice(angles) = AnglePattern
    /\ blue_nadir_idx = BlueStart + 2
    /\ \E k \in BandIndices(RedStart, RedEnd) :
          /\ k > red_nadir_idx
          /\ At(angles, k) = -At(angles, red_nadir_idx)
          /\ At(angles, k) # 0

\* C6 as stated: a band whose range is empty or not fully contained in the
\* angle vector gets no index, an error is raised instead.
C6_InvalidRangeRaised ==
    pc # "nadir" =>
        /\ Len(angles) < GreenEnd => (green_nadir_idx = Unbound /\ err # NoError)
        /\ Len(angles) < RedEnd => (red_nadir_idx = Unbound /\ err # NoError)
        /\ Len(angles) <= BlueStart => (blue_nadir_idx = Unbound /\ err # NoError)

\* C6 as amended: a band gets no index, and ValueError is raised, exactly
\* when its range clipped to the angle vector is empty; a range that is only
\* partly contained in the vector is clipped and its band gets an index.
C6_EmptyClippedRangeRaises ==
    pc # "nadir" =>
        /\ green_nadir_idx # Unbound <=> BandIndices(0, GreenEnd) # {}
        /\ red_nadir_idx # Unbound <=> BandIndices(RedStart, RedEnd) # {}
        /\ blue_nadir_idx # Unbound <=> BandIndices(BlueStart, Len(angles)) # {}
        /\ err = "ValueError" <=>
              \/ BandIndices(0, GreenEnd) = {}
              \/ BandIndices(RedStart, RedEnd) = {}
              \/ BandIndices(BlueStart, Len(angles)) = {}
        /\ err = NoError <=> pc = "select"

C6_Witness ==
    /\ pc = "raised"
    /\ Len(angles) > RedStart
    /\ Len(angles) < RedEnd
    /\ red_nadir_idx \in BandIndices(RedStart, RedEnd)
    /\ blue_nadir_idx = Unbound

----------------------------------------------------------------------------
(* Claims about the staging cell (Spec).                                   *)

Exited == pc \in {"done", "raised"}

\* C7: on every exit path of the staging cell (normal completion, a failed
\* frame write, a failed append, a failed save) the temporary directory and
\* every frame file in it are gone.
C7_TmpRemovedOnEveryExit ==
    /\ Exited => (~tmp_exists /\ DOMAIN tmp_files = {})
    /\ DOMAIN tmp_files # {} => tmp_exists

C7_Witness ==
    /\ pc = "raised"
    /\ err = "imwrite failed"
    /\ Len(anim) >= 1
    /\ i = Len(anim)
    /\ ~tmp_exists

StepFailures == {"ValueError", "mkdtemp failed", "imwrite failed", "append_file failed"}

\* C8: when a step before the final save fails (a transformation, a frame
\* write, a frame append) the run ends there with the error: the animation
\* file is not written, the APNG object gets no further frame, and no step
\* runs after an error.
C8_FailureAborts ==
    [][/\ err = NoError
       /\ err' \in StepFailures =>
             /\ pc' = "raised"
             /\ out_file' = "absent"
             /\ saved' = <<>>
             /\ anim' = anim]_vars

C8_Witness ==
    /\ pc = "raised"
    /\ err = "append_file failed"
    /\ Len(anim) >= 1
    /\ i + 1 < NumViews(frames)
    /\ out_file = "absent"

----------------------------------------------------------------------------
(* Claims about NaN in the animation pipeline (SpecPipe).                  *)

HasNaN(a) == NaN \in Values(a)

\* Every NaN of the red-band reflectance refl[..., 10:70] is still NaN at
\* its place in refl_pretty.
NaNKept ==
    \A p \in Pixels : \A k \in 1..Len(refl_pretty[p]) :
        IsNaN(At(refl[p], RedStart + k - 1)) => IsNaN(refl_pretty[p][k])

\* C9: NaN is replaced by 0 exactly once, in the statement right before the
\* 8-bit cast: up to that statement every NaN is kept, only that statement
\* turns a NaN into a number, it changes nothing else, and the statement
\* after it is the cast.
C9_NaNReplacedOnceBeforeCast ==
    [][/\ pc' \in {"smooth", "gamma", "nanfix"} => NaNKept'
       /\ (\E p \in Pixels :
             \E k \in 1..Min2(Len(refl_pretty[p]), Len(refl_pretty'[p])) :
                IsNaN(refl_pretty[p][k]) /\ ~IsNaN(refl_pretty'[p][k]))
             => pc = "nanfix"
       /\ pc = "nanfix" =>
             /\ pc' = "cast"
             /\ refl_pretty' =
                   [p \in Pixels |->
                       [k \in 1..Len(refl_pretty[p]) |->
                           IF IsNaN(refl_pretty[p][k]) THEN 0
                           ELSE refl_pretty[p][k]]]
       /\ pc = "cast" =>
             /\ ~HasNaN(refl_pretty)
             /\ pc' = "bounce"
             /\ Values(refl_pretty') \subseteq 0..255
       /\ pc' \in {"bounce", "stage"} => ~HasNaN(refl_pretty')]_vars

C9_Witness ==
    /\ pc = "cast"
    /\ \E p \in Pixels : \E k \in 1..Len(refl_pretty[p]) :
          /\ IsNaN(At(refl[p], RedStart + k - 1))
          /\ refl_pretty[p][k] = 0
    /\ \E x \in Values(refl_pretty) : x > 0

\* C10: a NaN radiance at (pixel, channel) of the red band gives the value
\* 0 at that pixel in every frame that shows the channel.
C10_NaNRadianceIsZeroFrame ==
    pc = "stage" =>
        \A p \in Pixels : \A ch \in RedStart..(RedEnd - 1) :
            (ch < Len(rad[p]) /\ IsNaN(At(rad[p], ch))) =>
                \A q \in 1..Len(frame_src) :
                    frame_src[q] = ch - RedStart => frames[p][q] = 0

C10_Witness ==
    /\ pc = "stage"
    /\ \E p \in Pixels : \E ch \in RedStart..(RedEnd - 1) :
          /\ ch < Len(rad[p])
          /\ IsNaN(At(rad[p], ch))
          /\ \E q \in 1..Len(frame_src) :
                /\ q > NumViews(refl_pretty)
                /\ frame_src[q] = ch - RedStart
                /\ frames[p][q] = 0
    /\ \E x \in Values(frames) : x > 0

----------------------------------------------------------------------------
(* Claims about rad_to_refl (SpecRefl).                                    *)

\* The cosine of a zenith angle of 0 or 60 degrees: 1 and 1 / 2.
CosineOf(z) == IF z = 0 THEN Q ELSE Q \div 2

\* v is the quotient num / cosine, as the fixed point holds it, times f.
IsQuotientTimes(v, num, cosine, f) ==
    \E m \in {num \div cosine} :
        /\ m * cosine <= num
        /\ num < (m + 1) * cosine
        /\ v = m * f

\* C11: the reflectance has the shape of the radiance and each element is
\* r^2 * pi * rad divided by the cosine of the pixel's solar zenith, the
\* quotient multiplied by the view's f0; for rad = 1, f0 = 1, r = 1 it is pi
\* at zenith 0 and 2 * pi (pi divided by 1 / 2) at zenith 60.
C11_ReflectanceFormula ==
    pc = "normalize" =>
        /\ DOMAIN refl = DOMAIN rad
        /\ \A p \in Pixels :
              /\ Len(refl[p]) = Len(rad[p])
              /\ \A k \in 1..Len(rad[p]) :
                    (/\ ~IsNaN(rad[p][k])
                     /\ ~IsNaN(f0[k])
                     /\ sza[p] \in SolarZeniths) =>
                        /\ IsQuotientTimes(refl[p][k],
                                           r * r * PiQ * rad[p][k] * Q,
                                           CosineOf(sza[p]), f0[k])
                        /\ (rad[p][k] = 1 /\ f0[k] = 1 /\ r = 1 /\ sza[p] = 0)
                              => refl[p][k] = PiQ
                        /\ (rad[p][k] = 1 /\ f0[k] = 1 /\ r = 1 /\ sza[p] = 60)
                              => /\ refl[p][k] * (Q \div 2) <= PiQ * Q
                                 /\ PiQ * Q < (refl[p][k] + 1) * (Q \div 2)

C11_Witness ==
    /\ pc = "normalize"
    /\ r = 1
    /\ sza[1] = 60
    /\ sza[2] = 0
    /\ \E k \in 1..Len(rad[1]) :
          /\ rad[1][k] = 1
          /\ f0[k] = 1
          /\ refl[1][k] = 2 * PiQ
    /\ \E k \in 1..Len(rad[2]) :
          /\ rad[2][k] = 1
          /\ f0[k] = 1
          /\ refl[2][k] = PiQ
    /\ \E k \in 1..Len(rad[2]) :
          /\ f0[k] = 2
          /\ rad[2][k] = MaxRad
          /\ refl[2][k] = 2 * MaxRad * PiQ

\* C12: rad_to_refl substitutes nothing for a missing input: where the
\* radiance is NaN the reflectance is NaN, and where radiance, solar zenith
\* and irradiance are all numbers the reflectance is a number.
C12_NaNPropagates ==
    pc = "normalize" =>
        \A p \in Pixels : \A k \in 1..Len(rad[p]) :
            /\ IsNaN(rad[p][k]) => IsNaN(refl[p][k])
            /\ (~IsNaN(rad[p][k]) /\ ~IsNaN(f0[k]) /\ ~IsNaN(sza[p]))
                  => ~IsNaN(refl[p][k])

C12_Witness ==
    /\ pc = "normalize"
    /\ \A p \in Pixels : ~IsNaN(sza[p])
    /\ \A k \in 1..Len(f0) : ~IsNaN(f0[k])
    /\ \E p \in Pixels : \E k, j \in 1..Len(rad[p]) :
          /\ IsNaN(rad[p][k])
          /\ IsNaN(refl[p][k])
          /\ ~IsNaN(rad[p][j])
          /\ refl[p][j] > 0

----------------------------------------------------------------------------
(* Claims about numeric edge cases (SpecEdge).                             *)

\* The red band of the reflectance, refl[..., 10:70].
RedRefl == SliceViews(refl, RedStart, RedEnd)

\* Every element of a is NaN, and a has elements.
AllNaN(a) == Values(a) = {NaN}

\* The red band is a constant array of numbers.
ConstantRed ==
    /\ Numbers(RedRefl) # {}
    /\ ~HasNaN(RedRefl)
    /\ ArrayMin(RedRefl) = ArrayMax(RedRefl)

\* C13: numeric edge cases raise nothing and are not masked: with the sun
\* on the horizon (cosine next to 0) a positive radiance gives a reflectance
\* too large for the fixed point, of one sign over the whole array (the
\* sign of the cosine), kept as it is in every later state; the
\* 0 / 0 of normalising a constant red band gives NaN everywhere, kept by the
\* next cell; the only error is the ValueError of an empty red band.
C13_EdgeCasesPropagate ==
    /\ err # NoError => (err = "ValueError" /\ NumViews(rad) <= RedStart)
    /\ pc # "refl" =>
          \A p \in Pixels : \A k \in 1..Len(rad[p]) :
              (sza[p] = 90 /\ ~IsNaN(rad[p][k]) /\ rad[p][k] > 0)
                  => /\ refl[p][k] \in {Huge, -Huge}
                     /\ ~({Huge, -Huge} \subseteq Values(refl))
    /\ (pc \in {"smooth", "gamma"} /\ ConstantRed) => AllNaN(refl_pretty)

C13_Witness ==
    /\ pc = "gamma"
    /\ err = NoError
    /\ NumViews(refl_pretty) >= 2
    /\ \A p \in Pixels : sza[p] = 90
    /\ Values(RedRefl) = {Huge}
    /\ AllNaN(refl_pretty)

----------------------------------------------------------------------------
(* Claims about the normalisation (SpecNorm).                              *)

\* y is the fixed-point quotient (x - lo) / (hi - lo).
IsRescaled(y, x, lo, hi) ==
    /\ y * (hi - lo) <= (x - lo) * Q
    /\ (x - lo) * Q < (y + 1) * (hi - lo)

\* C14: the normalisation rescales every element with one minimum and one
\* maximum taken over the whole red band, all pixels and views together:
\* when they are distinct numbers, each number x becomes
\* (x - min) / (max - min), which is in [0, 1], 0 for the minimum and 1 for
\* the maximum.
C14_GlobalMinMax ==
    (pc = "smooth" /\ Numbers(RedRefl) # {}) =>
        \E lo \in Numbers(RedRefl), hi \in Numbers(RedRefl) :
            /\ \A v \in Numbers(RedRefl) : lo <= v /\ v <= hi
            /\ lo # hi =>
                  \A p \in Pixels : \A k \in 1..Len(RedRefl[p]) :
                      ~IsNaN(RedRefl[p][k]) =>
                          /\ refl_pretty[p][k] \in 0..Q
                          /\ IsRescaled(refl_pretty[p][k], RedRefl[p][k], lo, hi)
                          /\ RedRefl[p][k] = lo => refl_pretty[p][k] = 0
                          /\ RedRefl[p][k] = hi => refl_pretty[p][k] = Q

\* Pixels of different ranges: pixel 1 holds the band's maximum, pixel 2
\* does not, and the largest value of pixel 2 is rescaled to less than 1.
C14_Witness ==
    /\ pc = "smooth"
    /\ NumViews(refl_pretty) >= 2
    /\ ~HasNaN(RedRefl)
    /\ Q \in {refl_pretty[1][k] : k \in 1..Len(refl_pretty[1])}
    /\ 0 \in {refl_pretty[2][k] : k \in 1..Len(refl_pretty[2])}
    /\ \A k \in 1..Len(refl_pretty[2]) : refl_pretty[2][k] < Q
    /\ \E k \in 1..Len(refl_pretty[2]) : refl_pretty[2][k] > 0

\* C15: a constant red band (max = min) is normalised to NaN at every
\* element, with no error and no fill value; the NaN are kept up to the
\* statement that replaces them, and every pixel of every frame of the
\* bounce sequence is 0.
C15_ConstantArrayIsBlack ==
    ConstantRed =>
        /\ err = NoError
        /\ pc \in {"smooth", "gamma", "nanfix"} => AllNaN(refl_pretty)
        /\ pc \in {"cast", "bounce", "stage"} => Values(refl_pretty) = {0}
        /\ pc = "stage" =>
              /\ Values(frames) = {0}
              /\ NumViews(frames) >= NumViews(refl_pretty)

C15_Witness ==
    /\ pc = "stage"
    /\ ConstantRed
    /\ NumViews(RedRefl) >= 3
    /\ NumViews(frames) > NumViews(RedRefl)
    /\ Values(frames) = {0}

\* The red band has distinct finite minimum and maximum.
DistinctMinMax ==
    /\ Numbers(RedRefl) # {}
    /\ ArrayMin(RedRefl) # ArrayMax(RedRefl)

\* C16: the normalisation (with no power applied) is idempotent: for a red
\* band with distinct finite minimum and maximum, the normalised array has
\* minimum 0 and maximum 1 and normalising it again returns it unchanged.
C16_NormalizeIdempotent ==
    (pc = "smooth" /\ DistinctMinMax) =>
        /\ ArrayMin(refl_pretty) = 0
        /\ ArrayMax(refl_pretty) = Q
        /\ Normalize(refl_pretty) = refl_pretty

C16_Witness ==
    /\ pc = "smooth"
    /\ DistinctMinMax
    /\ ArrayMin(RedRefl) > 0
    /\ \E x \in Values(refl_pretty) : 0 < x /\ x < Q
    /\ HasNaN(refl_pretty)
    /\ Normalize(refl_pretty) = refl_pretty

----------------------------------------------------------------------------
(* Claims about the quantisation (SpecNorm).                               *)

\* v is an integer nearest to 255 * x, clamped to 0..255.
IsRounded(v, x) ==
    /\ v \in 0..255
    /\ \E n \in {(255 * x) \div Q, ((255 * x) \div Q) + 1} :
          /\ 2 * Abs(255 * x - n * Q) <= Q
          /\ v = Min2(n, 255)

\* v is the integer part of 255 * x.
IsTruncated(v, x) ==
    /\ v * Q <= 255 * x
    /\ 255 * x < (v + 1) * Q

\* C17 as stated: the cast maps every x in [0, 1] to the integer nearest to
\* 255 * x, clamped to [0, 255].
C17_RoundedAndClamped ==
    [][pc = "cast" =>
          \A p \in Pixels : \A k \in 1..Len(refl_pretty[p]) :
              refl_pretty[p][k] \in 0..Q =>
                  IsRounded(refl_pretty'[p][k], refl_pretty[p][k])]_vars

\* C17 as amended: the cast maps every x in [0, 1] to the integer part of
\* 255 * x (the fraction is dropped, 254.6 becomes 254), which is in
\* [0, 255] and is 255 only for x = 1; nothing is rounded or clamped.
C17_Truncated ==
    [][pc = "cast" =>
          \A p \in Pixels : \A k \in 1..Len(refl_pretty[p]) :
              refl_pretty[p][k] \in 0..Q =>
                  /\ IsTruncated(refl_pretty'[p][k], refl_pretty[p][k])
                  /\ refl_pretty'[p][k] \in 0..255
                  /\ refl_pretty'[p][k] = 255 => refl_pretty[p][k] = Q]_vars

\* The array the cast statement reads, recomputed from the reflectance.
BeforeCast ==
    LET smoothed == gaussian_filter1d(Normalize(RedRefl))
    IN  [p \in Pixels |->
            [k \in 1..Len(smoothed[p]) |-> NanToZero(Pow23(smoothed[p][k]))]]

\* After the cast: an element whose 255 * x had a fraction above 1 / 2 holds
\* the integer below, and an element x = 1 holds 255.
C17_Witness ==
    /\ pc = "bounce"
    /\ \E p \in Pixels : \E k \in 1..Len(refl_pretty[p]) :
          /\ 2 * ((255 * BeforeCast[p][k]) % Q) > Q
          /\ refl_pretty[p][k] = (255 * BeforeCast[p][k]) \div Q
          /\ refl_pretty[p][k] < 254
    /\ \E p \in Pixels : \E k \in 1..Len(refl_pretty[p]) :
          /\ BeforeCast[p][k] = Q
          /\ refl_pretty[p][k] = 255

----------------------------------------------------------------------------
(* Claims about the smoothing (SpecNorm).                                  *)

\* The values an entry is changed to.
ProbeValues == {NaN, 0, Q}

\* C18: the smoothing mixes along the view axis only and over the views
\* k-1, k, k+1 only: the smoothed value at (p, k) is what the filter gives
\* for any input that differs from the cell's input at another pixel or at
\* a view further than 1 from k, and where the three views (the edge view
\* repeated beyond each end of the axis) hold the same number, the smoothed
\* value is that number.
C18_SmoothsAlongViewsOnly ==
    [][pc = "smooth" =>
          /\ \A p2 \in Pixels : \A k2 \in 1..Len(refl_pretty[p2]) :
             \A v \in ProbeValues :
                LET other == [refl_pretty EXCEPT ![p2][k2] = v]
                    smoothed == gaussian_filter1d(other)
                IN  \A p \in Pixels : \A k \in 1..Len(refl_pretty[p]) :
                        (p # p2 \/ Abs(k - k2) > 1) =>
                            smoothed[p][k] = refl_pretty'[p][k]
          /\ \A p \in Pixels : \A k \in 1..Len(refl_pretty[p]) :
                LET before == refl_pretty[p][Max2(k - 1, 1)]
                    after == refl_pretty[p][Min2(k + 1, Len(refl_pretty[p]))]
                IN  (/\ ~IsNaN(refl_pretty[p][k])
                     /\ before = refl_pretty[p][k]
                     /\ after = refl_pretty[p][k])
                        => refl_pretty'[p][k] = refl_pretty[p][k]]_vars

\* After the smoothing of an input whose pixel p has the same number at
\* views 1 and 2 and another at view 3, while another pixel differs from p
\* at view 1: view 1 of p is unchanged and view 2 is not.
C18_Witness ==
    /\ pc = "gamma"
    /\ NumViews(refl_pretty) >= 3
    /\ LET input == Normalize(RedRefl)
       IN  \E p \in Pixels, q \in Pixels :
              /\ ~IsNaN(input[p][1])
              /\ ~IsNaN(input[p][3])
              /\ ~IsNaN(input[q][1])
              /\ input[p][2] = input[p][1]
              /\ input[p][3] # input[p][1]
              /\ input[q][1] # input[p][1]
              /\ refl_pretty[p][1] = input[p][1]
              /\ refl_pretty[p][2] # input[p][2]

----------------------------------------------------------------------------
(* Claims about the encoder (Spec).                                        *)

\* C19: the APNG object receives the frames of the bounce sequence in
\* order, each position once, from position 0 on; the animation is saved
\* only after every frame was appended, and the saved animation holds all
\* the frames in order, 2N - 2 of them for N >= 2 input frames.
C19_AllFramesInOrderThenSaved ==
    /\ Len(anim) <= NumViews(frames)
    /\ \A q \in 1..Len(anim) :
          /\ anim[q].pos = q - 1
          /\ anim[q].image = FrameAt(frames, q - 1)
    /\ (out_file # "absent" \/ pc \in {"save", "done"}) =>
          Len(anim) = NumViews(frames)
    /\ pc # "done" => saved = <<>>
    /\ pc = "done" =>
          /\ out_file = "complete"
          /\ saved = anim
          /\ InFrames >= 2 => Len(saved) = 2 * InFrames - 2

C19_Witness ==
    /\ pc = "done"
    /\ InFrames >= 3
    /\ Len(saved) = 2 * InFrames - 2
    /\ saved[1].pos = 0
    /\ saved[Len(saved)].pos = 2 * InFrames - 3
    /\ saved[1].image # saved[2].image

\* C20: each frame is appended with a delay equal to its position in the
\* bounce sequence: delay 0 for the first frame, and strictly increasing
\* delays along the sequence, in the APNG object and in the saved animation.
C20_DelayIsPosition ==
    /\ \A q \in 1..Len(anim) :
          /\ anim[q].delay = q - 1
          /\ anim[q].delay = anim[q].pos
          /\ q > 1 => anim[q - 1].delay < anim[q].delay
    /\ \A q \in 1..Len(saved) : saved[q].delay = q - 1

C20_Witness ==
    /\ pc = "done"
    /\ Len(saved) >= 4
    /\ saved[1].delay = 0
    /\ saved[2].delay = 1
    /\ saved[Len(saved)].delay = NumViews(frames) - 1

----------------------------------------------------------------------------
(* Claims about the order of the animation cells (SpecNorm).               *)

\* a ** (2 / 3), element by element.
PowArray(a) == [p \in Pixels |-> [k \in 1..Len(a[p]) |-> Pow23(a[p][k])]]

\* C22 as stated: the rescaling and the power are both done before the
\* smoothing runs: the array the smoothing cell reads is the rescaled red
\* band raised to the power 2 / 3.
C22_PowerBeforeSmoothing ==
    pc = "smooth" => refl_pretty = PowArray(Normalize(RedRefl))

\* C22 as amended: the cells run one after the other, each on the whole
\* output of the one before: the rescaling, then the smoothing of the
\* rescaled band, then the power 2 / 3 of the smoothed band, then the NaN
\* replacement, the cast and the bounce concatenation.
C22_RescaleSmoothPowerOrder ==
    [][/\ pc = "normalize" => pc' \in {"smooth", "raised"}
       /\ pc = "smooth" =>
             /\ refl_pretty = Normalize(RedRefl)
             /\ pc' = "gamma"
       /\ pc = "gamma" =>
             /\ refl_pretty = gaussian_filter1d(Normalize(RedRefl))
             /\ pc' = "nanfix"
       /\ pc = "nanfix" =>
             /\ refl_pretty = PowArray(gaussian_filter1d(Normalize(RedRefl)))
             /\ pc' = "cast"
       /\ pc = "cast" => pc' = "bounce"
       /\ pc = "bounce" => pc' = "stage"]_vars

\* The power was applied to a smoothed band on which the two orders differ.
C22_Witness ==
    /\ pc = "nanfix"
    /\ NumViews(refl_pretty) >= 2
    /\ refl_pretty = PowArray(gaussian_filter1d(Normalize(RedRefl)))
    /\ refl_pretty # gaussian_filter1d(PowArray(Normalize(RedRefl)))

----------------------------------------------------------------------------
(* Claims about NaN and value ranges in the animation cells (SpecNorm).    *)

\* C24: the normalisation takes its minimum and maximum over the numbers
\* only: when the red band holds at least two distinct numbers, the
\* normalised array is NaN exactly where the band is NaN, and every other
\* element is a number in [0, 1]; a NaN does not spread to the array.
C24_NaNStaysInPlace ==
    (pc = "smooth" /\ Cardinality(Numbers(RedRefl)) >= 2) =>
        \A p \in Pixels : \A k \in 1..Len(RedRefl[p]) :
            /\ IsNaN(refl_pretty[p][k]) <=> IsNaN(RedRefl[p][k])
            /\ ~IsNaN(RedRefl[p][k]) => refl_pretty[p][k] \in 0..Q

C24_Witness ==
    /\ pc = "smooth"
    /\ Cardinality({pk \in Pixels \X (1..NumViews(RedRefl)) :
                       IsNaN(RedRefl[pk[1]][pk[2]])}) = 1
    /\ Cardinality(Numbers(RedRefl)) >= 3
    /\ Cardinality(Numbers(refl_pretty)) >= 3
    /\ {0, Q} \subseteq Numbers(refl_pretty)

\* The normalised red band, the array the smoothing cell reads.
Normalized == Normalize(RedRefl)

\* The views k-1, k, k+1 that exist on an axis of n views.
Around(k, n) == {j \in {k - 1, k, k + 1} : 1 <= j /\ j <= n}

\* C25: after the cast, a NaN at view k of a pixel of the normalised band
\* has made the pixel 0 at the views k-1, k, k+1 that exist, and at no other
\* view: where a pixel's own value and its neighbours on the view axis are
\* numbers, its 8-bit value is the one the cells give for the band with
\* every NaN replaced by a number.
C25_NaNZeroesThreeViews ==
    pc = "bounce" =>
        LET norm == Normalized
            filled == [p \in Pixels |->
                          [k \in 1..Len(norm[p]) |-> NanToZero(norm[p][k])]]
        IN  \A p \in Pixels : \A k \in 1..Len(norm[p]) :
                /\ IsNaN(norm[p][k]) =>
                      \A j \in Around(k, Len(norm[p])) : refl_pretty[p][j] = 0
                /\ (\A j \in Around(k, Len(norm[p])) : ~IsNaN(norm[p][j])) =>
                      \E u \in NaNCasts :
                          refl_pretty[p][k] =
                              CastU8(Pow23(SmoothAt(filled[p], k)), u)

\* A NaN at view k of a pixel: the views next to k hold positive numbers in
\* the normalised band and are 0 after the cast, a view at distance 2 is
\* positive after the cast.
C25_Witness ==
    /\ pc = "bounce"
    /\ \E p \in Pixels : \E k \in 1..Len(Normalized[p]) :
          /\ IsNaN(Normalized[p][k])
          /\ \A j \in Around(k, Len(Normalized[p])) \ {k} :
                /\ ~IsNaN(Normalized[p][j])
                /\ Normalized[p][j] > 0
                /\ refl_pretty[p][j] = 0
          /\ Around(k, Len(Normalized[p])) # {k}
          /\ \E j \in 1..Len(Normalized[p]) :
                /\ Abs(j - k) = 2
                /\ refl_pretty[p][j] > 0

\* C26: right before the cast every element is a number in [0, 1]: the
\* normalised numbers are in [0, 1], and so are the smoothed ones and their
\* powers; NaN is gone; so 255 * x is in [0, 255] and the cast stores its
\* integer part without wrapping around.
C26_UnitRangeBeforeCast ==
    [][/\ pc' \in {"smooth", "gamma", "nanfix", "cast"} =>
             Numbers(refl_pretty') \subseteq 0..Q
       /\ pc' = "cast" => ~HasNaN(refl_pretty')
       /\ pc = "cast" =>
             \A p \in Pixels : \A k \in 1..Len(refl_pretty[p]) :
                 /\ 255 * refl_pretty[p][k] \in 0..(255 * Q)
                 /\ refl_pretty'[p][k] = (255 * refl_pretty[p][k]) \div Q]_vars

\* After the cast of an array that held 0, 1 and numbers in between, with
\* an element whose smoothed value was above the element itself.
C26_Witness ==
    /\ pc = "bounce"
    /\ {0, Q} \subseteq Values(BeforeCast)
    /\ \E x \in Values(BeforeCast) : 0 < x /\ x < Q
    /\ {0, 255} \subseteq Values(refl_pretty)
    /\ \E p \in Pixels : \E k \in 1..Len(Normalized[p]) :
          /\ ~IsNaN(Normalized[p][k])
          /\ BeforeCast[p][k] > Normalized[p][k]

----------------------------------------------------------------------------
(* Claims about the ranges of the nadir indices (SpecNadir).               *)

\* C27: for an angle vector of at least 81 views the nadir cell binds the
\* three indices, each inside the range of its band: green in [0, 10), red
\* in [10, 70), blue in [80, length); none is in the NIR range [70, 80).
C27_NadirInsideBand ==
    (pc # "nadir" /\ Len(angles) >= BlueStart + 1) =>
        /\ pc = "select"
        /\ green_nadir_idx \in 0..(GreenEnd - 1)
        /\ red_nadir_idx \in RedStart..(RedEnd - 1)
        /\ blue_nadir_idx \in BlueStart..(Len(angles) - 1)
        /\ {green_nadir_idx, red_nadir_idx, blue_nadir_idx}
              \cap (RedEnd..(BlueStart - 1)) = {}

\* An angle 0 in the NIR range, next to the red band whose last view also
\* has angle 0: the red index is the last of its range.
C27_Witness ==
    /\ pc = "select"
    /\ Len(angles) = MaxViews
    /\ \E k \in RedEnd..(BlueStart - 1) : At(angles, k) = 0
    /\ red_nadir_idx = RedEnd - 1
    /\ blue_nadir_idx >= BlueStart

----------------------------------------------------------------------------
\* C21 as stated: no step mutates an array in place, so whenever the
\* contents of refl, refl_pretty or frames change, the name is bound to a
\* fresh array object over a fresh buffer.
C21_NoInPlaceMutation ==
    [][ /\ refl_pretty' # refl_pretty =>
              (ids'.obj # ids.obj /\ ids'.buf # ids.buf)
        /\ refl' # refl => ids'.refl # ids.refl
        /\ frames' # frames => ids'.frames # ids.frames ]_vars

\* C21 amended: every step yields a fresh array and leaves the array it
\* received unchanged, except two: the smoothing step assigns the filtered
\* values to .data of the existing refl_pretty object, and the NaN
\* replacement overwrites elements of refl_pretty's buffer in place. Both
\* act on an array the animation made itself, never on refl or the inputs.
C21_InPlaceOnlyOnOwnArray ==
    [][ /\ pc = "refl" => (ids'.refl = ids.next /\ rad' = rad)
        /\ (pc = "normalize" /\ pc' = "smooth") =>
              (ids'.obj >= ids.next /\ ids'.buf >= ids.next /\ refl' = refl)
        /\ pc = "smooth" =>
              (ids'.obj = ids.obj /\ ids'.buf >= ids.next /\ refl' = refl)
        /\ pc = "gamma" =>
              (ids'.obj >= ids.next /\ ids'.buf >= ids.next /\ refl' = refl)
        /\ pc = "nanfix" =>
              /\ ids'.obj = ids.obj
              /\ ids'.buf = ids.buf
              /\ ids.buf # ids.refl
              /\ refl' = refl
        /\ pc = "cast" =>
              (ids'.obj >= ids.next /\ ids'.buf >= ids.next /\ refl' = refl)
        /\ pc = "bounce" =>
              /\ ids'.frames >= ids.next
              /\ refl_pretty' = refl_pretty
              /\ refl' = refl ]_vars

\* The NaN replacement has run in place: the NaN of the normalized band are
\* zeros in refl_pretty, and nothing was allocated since the gamma
\* statement made the buffer.
C21_Witness ==
    /\ pc = "cast"
    /\ \E p \in Pixels : \E k \in 1..Len(refl_pretty[p]) :
          /\ IsNaN(Normalize(RedRefl)[p][k])
          /\ refl_pretty[p][k] = 0
    /\ ids.next = ids.buf + 1
    /\ ids.buf # ids.refl

----------------------------------------------------------------------------
\* C28: once the conversion has made refl, no step of the animation (the
\* red slice, normalization, smoothing, gamma, NaN replacement,
\* quantization, bounce, staging, encoding) changes an element of refl, its
\* NaN included, and the buffer the NaN replacement writes is not refl's.
C28_ReflUnchanged ==
    [][ /\ pc # "refl" => refl' = refl
        /\ pc = "nanfix" => ids.buf # ids.refl ]_vars

\* The animation has been saved with the frames showing 0 where the
\* normalized band had a NaN, and refl still has the NaN there.
C28_Witness ==
    /\ pc = "done"
    /\ out_file = "complete"
    /\ Len(saved) > 0
    /\ \E p \in Pixels : \E k \in 1..NumViews(refl_pretty) :
          /\ IsNaN(refl[p][RedStart + k])
          /\ refl_pretty[p][k] = 0
          /\ frames[p][k] = 0

----------------------------------------------------------------------------
(* Claims about the direct-access check (SpecAccess).                      *)

\* C23: the check cell has no effect when paths[0].f.bucket exists, and in
\* every other case (no bucket, no .f, no first path) it ends with a raised
\* error.
C23_CheckPassesOrRaises ==
    [][ pc = "check" =>
          IF Len(paths) > 0 /\ HasBucket(paths[1])
          THEN /\ pc' = "checked"
               /\ UNCHANGED <<err, paths, ids, plotVars, angles,
                              green_nadir_idx, red_nadir_idx, blue_nadir_idx,
                              rad, f0, sza, r, refl, refl_pretty, frames,
                              frame_src, i, range_it, tmp_exists, tmp_files, anim,
                              out_file, saved>>
          ELSE /\ pc' = "raised"
               /\ err' # NoError ]_vars

\* The first path is not an S3 file although a later one is, and the cell
\* has raised.
C23_Witness ==
    /\ pc = "raised"
    /\ err = "TypeError"
    /\ Len(paths) >= 2
    /\ paths[1] = "HTTPFile"
    /\ paths[2] = "S3File"

----------------------------------------------------------------------------
(* Claims about the polarization plots (SpecStokes).                       *)

\* The three nadir views of one variable of stokes, before any rescaling.
SelectedViews(v) ==
    Isel(stokes[v], <<red_nadir_idx, green_nadir_idx, blue_nadir_idx>>)

\* C30: between the rescaling and the 3/4 power, each of I, Q and U with two
\* distinct finite values is rescaled with its own minimum and maximum over
\* the three nadir views and all pixels: NaN stay, every finite x becomes
\* (x - lo) / (hi - lo), and the finite values of each component reach
\* from exactly 0 to exactly 1.
C30_OwnRangePerComponent ==
    pc = "power" =>
        \A v \in StokesVars :
            LET sel == SelectedViews(v)
                nums == Numbers3(sel)
            IN  Cardinality(nums) >= 2 =>
                  LET lo == MinOf(nums)
                      hi == MaxOf(nums)
                      out == Numbers3(rgb_stokes[v])
                  IN  /\ \A row \in Rows, col \in Cols, k \in 1..3 :
                            IF IsNaN(sel[row][col][k])
                            THEN IsNaN(rgb_stokes[v][row][col][k])
                            ELSE IsRescaled(rgb_stokes[v][row][col][k],
                                            sel[row][col][k], lo, hi)
                      /\ out \subseteq 0..Q
                      /\ 0 \in out
                      /\ Q \in out

\* The three components have three different ranges, one of them holds a
\* NaN, and each has been rescaled.
C30_Witness ==
    /\ pc = "power"
    /\ \A v \in StokesVars : Cardinality(Numbers3(SelectedViews(v))) >= 2
    /\ \A v, w \in StokesVars :
          v # w => \/ Min3(SelectedViews(v)) # Min3(SelectedViews(w))
                   \/ Max3(SelectedViews(v)) # Max3(SelectedViews(w))
    /\ \E v \in StokesVars : \E row \in Rows, col \in Cols :
          IsNaN(rgb_stokes[v][row][col][1])
    /\ \A v \in StokesVars : {0, Q} \subseteq Numbers3(rgb_stokes[v])

\* A pixel of rgb_stokes whose I is not null in all three nadir views.
ValidPixel(row, col) == \A k \in 1..3 : ~IsNaN(rgb_stokes["i"][row][col][k])

\* The rows and the columns with at least one valid pixel, in order.
ValidRows == Sorted({row \in Rows : \E col \in Cols : ValidPixel(row, col)})
ValidCols == Sorted({col \in Cols : \E row \in Rows : ValidPixel(row, col)})

\* crop is the array a restricted to the valid rows and columns, every
\* retained element as it was.
IsCropOf(crop, a) ==
    /\ Len(crop) = Len(ValidRows)
    /\ \A j \in 1..Len(crop) :
          /\ Len(crop[j]) = Len(ValidCols)
          /\ \A l \in 1..Len(crop[j]) : crop[j][l] = a[ValidRows[j]][ValidCols[l]]

\* C29: the crop keeps exactly the rows with at least one pixel that is not
\* null in all three nadir views and exactly the columns with such a pixel,
\* changes no retained value, and gives the cropped DoLP and the cropped
\* Stokes variables the same rows and columns, also in the merged dataset.
C29_CropKeepsValidRowsAndCols ==
    pc = "plotted" =>
        /\ \A v \in StokesVars : IsCropOf(crop_rgb_stokes[v], rgb_stokes[v])
        /\ IsCropOf(crop_rgb_dolp, rgb_dolp)
        /\ \A v \in StokesVars : crop_rgb[v] = crop_rgb_stokes[v]
        /\ crop_rgb["dolp"] = crop_rgb_dolp

\* A row without a valid pixel lies between two rows that have one, a
\* column is dropped, and a pixel that is not valid itself is retained
\* because its row and its column each have a valid pixel.
C29_Witness ==
    /\ pc = "plotted"
    /\ \E r0 \in Rows :
          /\ \A col \in Cols : ~window[r0][col]
          /\ \E r1 \in 1..(r0 - 1) : \E col \in Cols : window[r1][col]
          /\ \E r2 \in (r0 + 1)..NumRows : \E col \in Cols : window[r2][col]
    /\ Len(crop_rgb["dolp"]) = NumRows - 1
    /\ Len(crop_rgb["i"][1]) < NumCols
    /\ \E j \in 1..Len(crop_rgb["i"]) : \E l \in 1..Len(crop_rgb["i"][j]) :
          /\ IsNaN(crop_rgb["i"][j][l][1])
          /\ ~IsNaN(crop_rgb["u"][j][l][1])

============================================================================
